---- MODULE Spec2Model ----
(***************************************************************************)
(* dbtree: schema graph construction (graph.Build) and the rendering       *)
(* engine (render.Render): tree projection with cycle marking, the text    *)
(* and JSON formatters, the flat listing and the diagram source.           *)
(*                                                                         *)
(* Pointers are modelled as sequences of length 0 (nil) or 1 (the value),  *)
(* errors as sequences of strings (<<>> is the nil error), and the output  *)
(* string as a sequence of lines or documents (<<>> is the empty string).  *)
(***************************************************************************)
EXTENDS Integers, Sequences, FiniteSets, TLC

\* ------------------------------------------------------------------ bounds
\* The largest number of tables of a schema.
MaxTables == 3
\* The largest number of foreign-key constraints of a schema.
MaxFKs == 3
\* The largest number of constraints of a schema among the schemas that vary
\* the constraint kinds.
MaxConstraints == 2

\* ------------------------------------------------------- names and order
\* Table names in ascending byte-wise (Go string) order; the last one never
\* names a table of the schema and serves as the dangling reference target.
NameOrder == <<"a", "b", "c", "d", "e", "zz">>

Rank(n) == CHOOSE i \in 1..Len(NameOrder) : NameOrder[i] = n

\* Go's  x < y  on table names.
NameLess(x, y) == Rank(x) < Rank(y)

Names == {NameOrder[i] : i \in 1..MaxTables}

Dangling == "zz"

DatabaseName == "db"

FKColumnNames == <<"fk1", "fk2", "fk3", "fk4", "fk5", "fk6">>

\* ------------------------------------------------------------ data model
PrimaryKey == "PRIMARY_KEY"
ForeignKey == "FOREIGN_KEY"
Unique == "UNIQUE"
Check == "CHECK"

\* database.Column (the fields the core reads).
Column(name, type) == [Name |-> name, Type |-> type]

\* database.Constraint.
Constraint(kind, cols, refTable, refCols) ==
    [Kind |-> kind, Columns |-> cols, ReferenceTable |-> refTable,
     ReferenceColumns |-> refCols]

\* database.Table.
Table(name, cols, cons) == [Name |-> name, Columns |-> cols, Constraints |-> cons]

\* ------------------------------------------------------------ the inputs
\* A schema as the introspection collaborator delivers it: distinct table
\* names in declaration order; every table has the column id with a
\* single-column primary key, and one column per foreign key it declares.
\* fks is the schema's foreign keys, <<owner position, referenced table>>,
\* in declaration order.
FKsOf(fks, pos) == SelectSeq(fks, LAMBDA f : f[1] = pos)

SchemaTable(name, refs) ==
    Table(name,
          <<Column("id", "int")>> \o
              [k \in 1..Len(refs) |-> Column(FKColumnNames[k], "int")],
          <<Constraint(PrimaryKey, <<"id">>, "", <<>>)>> \o
              [k \in 1..Len(refs) |->
                  Constraint(ForeignKey, <<FKColumnNames[k]>>, refs[k][2], <<"id">>)])

Schema(ns, fks) ==
    [Name |-> DatabaseName,
     Tables |-> [i \in 1..Len(ns) |-> SchemaTable(ns[i], FKsOf(fks, i))]]

NameSeqs ==
    {s \in UNION {[1..n -> Names] : n \in 0..MaxTables} :
        \A i, j \in 1..Len(s) : i # j => s[i] # s[j]}

FKSeqs(n) ==
    {f \in UNION {[1..k -> (1..n) \X (Names \cup {Dangling})] : k \in 0..MaxFKs} :
        \A i, j \in 1..Len(f) : i < j => f[i][1] <= f[j][1]}


\* Schemas that vary the constraints: one or two tables with the columns id,
\* x and y, and up to MaxConstraints constraints out of single and composite
\* primary keys, unique and check constraints, and foreign keys that are
\* single, composite, dangling, or short of a reference column.
RichColumns == <<Column("id", "int"), Column("x", "int"), Column("y", "text")>>

ConstraintTemplates ==
    {Constraint(PrimaryKey, <<"x">>, "", <<>>),
     Constraint(PrimaryKey, <<"id", "x">>, "", <<>>),
     Constraint(Unique, <<"x">>, "", <<>>),
     Constraint(Check, <<"x">>, "", <<>>),
     Constraint(ForeignKey, <<"x">>, "a", <<"id">>),
     Constraint(ForeignKey, <<"x", "y">>, "b", <<"id", "x">>),
     Constraint(ForeignKey, <<"x">>, Dangling, <<"id">>),
     Constraint(ForeignKey, <<"x", "y">>, "a", <<"id">>)}

\* The constraints of a schema of n tables, <<owner position, constraint>>,
\* in declaration order.
ConstraintSeqs(n) ==
    {c \in UNION {[1..k -> (1..n) \X ConstraintTemplates] : k \in 0..MaxConstraints} :
        \A i, j \in 1..Len(c) : i < j => c[i][1] <= c[j][1]}

ConstraintsOf(cs, pos) ==
    LET own == SelectSeq(cs, LAMBDA c : c[1] = pos)
    IN [k \in 1..Len(own) |-> own[k][2]]

RichNameSeqs == {<<>>, <<"a">>, <<"b">>, <<"a", "b">>, <<"b", "a">>}

RichSchema(ns, cs) ==
    [Name |-> DatabaseName,
     Tables |-> [i \in 1..Len(ns) |-> Table(ns[i], RichColumns, ConstraintsOf(cs, i))]]

\* ------------------------------------------------------------ graph.Build
\* TableEdges without the lookup of the referenced table among the nodes.
RECURSIVE TableEdges_NoExistsCheck(_, _, _)
TableEdges_NoExistsCheck(table, nodes, k) ==
    IF k > Len(table.Constraints) THEN <<>>
    ELSE LET constraint == table.Constraints[k]
             edge == [FromTable |-> table.Name,
                      ToTable |-> constraint.ReferenceTable,
                      Columns |-> constraint.Columns,
                      ReferenceColumns |-> constraint.ReferenceColumns]
         IN (IF constraint.Kind = ForeignKey THEN <<edge>> ELSE <<>>)
                \o TableEdges_NoExistsCheck(table, nodes, k + 1)

\* The foreign-key edges of one table, in constraint declaration order.
RECURSIVE TableEdges(_, _, _)
TableEdges(table, nodes, k) ==
    IF k > Len(table.Constraints) THEN <<>>
    ELSE LET constraint == table.Constraints[k]
             edge == [FromTable |-> table.Name,
                      ToTable |-> constraint.ReferenceTable,
                      Columns |-> constraint.Columns,
                      ReferenceColumns |-> constraint.ReferenceColumns]
         IN (IF constraint.Kind = ForeignKey
                 /\ constraint.ReferenceTable \in DOMAIN nodes
             THEN <<edge>> ELSE <<>>) \o TableEdges(table, nodes, k + 1)

\* SchemaEdges with the edges of the later tables in front.
RECURSIVE SchemaEdges_LaterTablesFirst(_, _, _)
SchemaEdges_LaterTablesFirst(tables, nodes, i) ==
    IF i > Len(tables) THEN <<>>
    ELSE SchemaEdges_LaterTablesFirst(tables, nodes, i + 1) \o TableEdges(tables[i], nodes, 1)

\* The edges of the tables, in table declaration order.
RECURSIVE SchemaEdges(_, _, _)
SchemaEdges(tables, nodes, i) ==
    IF i > Len(tables) THEN <<>>
    ELSE TableEdges(tables[i], nodes, 1) \o SchemaEdges(tables, nodes, i + 1)

\* nodes[TableName(table.Name)] = table, a later table of the same name
\* replacing an earlier one.
BuildNodes(tables) ==
    [n \in {tables[i].Name : i \in 1..Len(tables)} |->
        tables[CHOOSE i \in 1..Len(tables) :
                  /\ tables[i].Name = n
                  /\ \A j \in 1..Len(tables) : tables[j].Name = n => j <= i]]

\* Build without the nil check, handing back an empty graph for a nil input.
Build_NoNilCheck(d) ==
    LET tables == IF d = <<>> THEN <<>> ELSE d[1].Tables
        nodes == BuildNodes(tables)
    IN [g |-> <<[DatabaseName |-> IF d = <<>> THEN "" ELSE d[1].Name,
                 Nodes |-> nodes,
                 Edges |-> SchemaEdges(tables, nodes, 1)]>>,
        err |-> <<>>]

\* Build(d): the graph pointer and the error.
Build(d) ==
    IF d = <<>> THEN [g |-> <<>>, err |-> <<"database is nil">>]
    ELSE LET nodes == BuildNodes(d[1].Tables)
         IN [g |-> <<[DatabaseName |-> d[1].Name,
                      Nodes |-> nodes,
                      Edges |-> SchemaEdges(d[1].Tables, nodes, 1)]>>,
             err |-> <<>>]

\* ------------------------------------------------------ render: helpers
\* The orders in which  for tableName := range g.Nodes  may deliver the keys
\* of the map: every key once, in an order the runtime picks per loop.
IterationOrders(gr) ==
    {order \in [1..Cardinality(DOMAIN gr.Nodes) -> DOMAIN gr.Nodes] :
        \A i, j \in 1..Len(order) : i # j => order[i] # order[j]}

\* sort.Slice(names, names[i] < names[j]) without the comparison: the slice
\* stays as the loop appended it.
sortSlice_NoSort(names) == names

\* sort.Slice(names, names[i] < names[j]).
RECURSIVE sortSlice(_)
sortSlice(names) ==
    IF names = <<>> THEN <<>>
    ELSE LET rest == sortSlice(Tail(names))
             before == SelectSeq(rest, LAMBDA n : NameLess(n, Head(names)))
             after == SelectSeq(rest, LAMBDA n : ~NameLess(n, Head(names)))
         IN before \o <<Head(names)>> \o after

EdgeSet(gr) == {gr.Edges[i] : i \in 1..Len(gr.Edges)}

\* childrenMap: for every edge, FromTable is appended to the children of
\* ToTable, in edge order.
RECURSIVE ChildrenOf(_, _, _)
\* ChildrenOf with the two ends of the edge exchanged: the referenced tables
\* as the children of the referencing one.
RECURSIVE ChildrenOf_ReferencedBelow(_, _, _)
ChildrenOf_ReferencedBelow(edges, t, i) ==
    IF i > Len(edges) THEN <<>>
    ELSE (IF edges[i].FromTable = t THEN <<edges[i].ToTable>> ELSE <<>>)
             \o ChildrenOf_ReferencedBelow(edges, t, i + 1)

ChildrenOf(edges, t, i) ==
    IF i > Len(edges) THEN <<>>
    ELSE (IF edges[i].ToTable = t THEN <<edges[i].FromTable>> ELSE <<>>)
             \o ChildrenOf(edges, t, i + 1)

buildAdjacencyList(gr) ==
    [t \in DOMAIN gr.Nodes \cup {e.ToTable : e \in EdgeSet(gr)} |->
        ChildrenOf(gr.Edges, t, 1)]

\* hasIncomingEdge: the tables that are FromTable of some edge.
hasIncomingEdge(gr) == {e.FromTable : e \in EdgeSet(gr)}

\* findRootTables with the mark set from the referenced end of each edge.
findRootTables_ByToTable(gr, order) ==
    sortSlice(SelectSeq(order, LAMBDA t : t \notin {e.ToTable : e \in EdgeSet(gr)}))

\* findRootTables leaving out the tables that no edge touches.
findRootTables_ReferencedOnly(gr, order) ==
    sortSlice(SelectSeq(order, LAMBDA t :
                 /\ t \notin hasIncomingEdge(gr)
                 /\ t \in {e.ToTable : e \in EdgeSet(gr)}))

\* Tables that are FromTable of no edge, collected in map order, then sorted.
findRootTables(gr, order) ==
    sortSlice(SelectSeq(order, LAMBDA t : t \notin hasIncomingEdge(gr)))

\* findOrphanTables taking every unvisited table, with or without edges.
findOrphanTables_AllUnvisited(gr, vis, order) ==
    sortSlice(SelectSeq(order, LAMBDA t : t \notin vis))

\* Unvisited tables that no edge touches, collected in map order, then sorted.
findOrphanTables(gr, vis, order) ==
    sortSlice(SelectSeq(order, LAMBDA t :
                 /\ t \notin vis
                 /\ \A e \in EdgeSet(gr) : e.FromTable # t /\ e.ToTable # t))

\* getSortedTableNames returning the names in reverse order.
getSortedTableNames_Descending(gr, order) ==
    LET names == sortSlice(order)
    IN [i \in 1..Len(names) |-> names[Len(names) + 1 - i]]

getSortedTableNames(gr, order) == sortSlice(order)

\* The fallback start table of buildTree: the loop over the map keeps the
\* smallest table name seen so far ("" before the first).
RECURSIVE firstTableFrom(_, _, _)
firstTableFrom(order, i, first) ==
    IF i > Len(order) THEN first
    ELSE firstTableFrom(order, i + 1,
            IF first = "" \/ NameLess(order[i], first) THEN order[i] ELSE first)

firstTable(gr, order) == firstTableFrom(order, 1, "")

\* g.Nodes[tableName], a *database.Table: nil (<<>>) for a missing key.
NodeTable(gr, t) == IF t \in DOMAIN gr.Nodes THEN <<gr.Nodes[t]>> ELSE <<>>

\* render.TreeNode.
TreeNode(name, table, children, circular, shown) ==
    [TableName |-> name, Table |-> table, Children |-> children,
     IsCircular |-> circular, AlreadyShown |-> shown]

OrphanTables == "orphan_tables"

\* ------------------------------------------------------- render: formats
FormatText == "text"
FormatJSON == "json"
ShapeTree == "tree"
ShapeFlat == "flat"
ShapeGraph == "graph"

\* The shape value the command line, the README and the tests use for the
\* diagram.
ShapeChart == "chart"

\* The validation of --format and --shape in main, before Render is called.
CLIAccepts(f, s) ==
    /\ f \in {FormatText, FormatJSON}
    /\ s \in {ShapeTree, ShapeFlat, ShapeChart}
    /\ ~(s = ShapeChart /\ f = FormatJSON)

\* The values a caller may pass: Format and Shape are plain strings.
Formats == {FormatText, FormatJSON, "invalid"}
Shapes == {ShapeTree, ShapeFlat, ShapeGraph, ShapeChart, "invalid"}

\* RenderCase with the json/graph rejection tested before the nil check.
RenderCase_NilCheckLate(gp, f, s) ==
    IF f = FormatJSON /\ s = ShapeGraph THEN "json_graph"
    ELSE IF gp = <<>> THEN "nil"
    ELSE IF f = FormatText /\ s = ShapeTree THEN "text_tree"
    ELSE IF f = FormatJSON /\ s = ShapeTree THEN "json_tree"
    ELSE IF f = FormatText /\ s = ShapeFlat THEN "text_flat"
    ELSE IF f = FormatJSON /\ s = ShapeFlat THEN "json_flat"
    ELSE IF f = FormatText /\ s = ShapeGraph THEN "text_graph"
    ELSE "default"

\* RenderCase without the json/graph case: the shape alone selects the diagram.
RenderCase_GraphAnyFormat(gp, f, s) ==
    IF gp = <<>> THEN "nil"
    ELSE IF f = FormatText /\ s = ShapeTree THEN "text_tree"
    ELSE IF f = FormatJSON /\ s = ShapeTree THEN "json_tree"
    ELSE IF f = FormatText /\ s = ShapeFlat THEN "text_flat"
    ELSE IF f = FormatJSON /\ s = ShapeFlat THEN "json_flat"
    ELSE IF s = ShapeGraph THEN "text_graph"
    ELSE "default"

\* The branch Render takes.
RenderCase(gp, f, s) ==
    IF gp = <<>> THEN "nil"
    ELSE IF f = FormatText /\ s = ShapeTree THEN "text_tree"
    ELSE IF f = FormatJSON /\ s = ShapeTree THEN "json_tree"
    ELSE IF f = FormatText /\ s = ShapeFlat THEN "text_flat"
    ELSE IF f = FormatJSON /\ s = ShapeFlat THEN "json_flat"
    ELSE IF f = FormatText /\ s = ShapeGraph THEN "text_graph"
    ELSE IF f = FormatJSON /\ s = ShapeGraph THEN "json_graph"
    ELSE "default"

\* The errors Render returns without rendering.
RenderError(c, f, s) ==
    IF c = "nil" THEN <<"schema graph cannot be nil">>
    ELSE IF c = "json_graph" THEN <<"graph shape is only supported with text format">>
    ELSE IF c = "default" THEN <<"unsupported format/shape combination: ", f, "/", s>>
    ELSE <<>>

\* ---------------------------------------------------- render: text tree
\* What appendConstraints writes after a column, piece by piece.
RECURSIVE ForeignKeyRefs(_, _, _)
ForeignKeyRefs(constraint, columnName, j) ==
    IF j > Len(constraint.Columns) THEN <<>>
    ELSE (IF constraint.Columns[j] = columnName /\ j <= Len(constraint.ReferenceColumns)
          THEN <<" -> ", constraint.ReferenceTable, ".", constraint.ReferenceColumns[j]>>
          ELSE <<>>) \o ForeignKeyRefs(constraint, columnName, j + 1)

RECURSIVE appendConstraintsFrom(_, _, _)
appendConstraintsFrom(table, columnName, k) ==
    IF k > Len(table.Constraints) THEN <<>>
    ELSE LET constraint == table.Constraints[k]
             tag == IF Len(constraint.Columns) = 1 /\ constraint.Columns[1] = columnName
                    THEN (IF constraint.Kind = PrimaryKey THEN <<" PRIMARY KEY">>
                          ELSE IF constraint.Kind = Unique THEN <<" UNIQUE">>
                          ELSE <<>>)
                    ELSE <<>>
             refs == IF constraint.Kind = ForeignKey
                     THEN ForeignKeyRefs(constraint, columnName, 1)
                     ELSE <<>>
         IN tag \o refs \o appendConstraintsFrom(table, columnName, k + 1)

appendConstraints(table, columnName) == appendConstraintsFrom(table, columnName, 1)

\* The box-drawing connectors and continuations, in ASCII.
Connector(isLast) == IF isLast THEN "+-- " ELSE "|-- "

Indent(isLast) == IF isLast THEN "    " ELSE "|   "

\* One output line per column: prefix, connector, name, type, annotations.
renderTableColumns(tablep, prefix) ==
    IF tablep = <<>> THEN <<>>
    ELSE LET table == tablep[1]
         IN [i \in 1..Len(table.Columns) |->
                [kind |-> "column", prefix |-> prefix,
                 connector |-> Connector(i = Len(table.Columns)),
                 name |-> table.Columns[i].Name,
                 type |-> table.Columns[i].Type,
                 constraints |-> appendConstraints(table, table.Columns[i].Name)]]

\* The bulleted section renderTextNode writes for the orphan_tables node.
RECURSIVE OrphanSection(_, _)
OrphanSection(children, i) ==
    IF i > Len(children) THEN <<>>
    ELSE <<[kind |-> "orphan", name |-> children[i].TableName]>>
             \o renderTableColumns(children[i].Table, <<"  ">>)
             \o OrphanSection(children, i + 1)

RECURSIVE renderTextNode(_, _, _)
RECURSIVE renderTextChildren(_, _, _)
RECURSIVE renderTextChildren_LastFirst(_, _, _)
\* renderTextNode writing the columns of every node that has a table, the
\* marker nodes included.
renderTextNode_ColumnsOfMarkers(node, prefix, isLast) ==
    IF node.TableName = OrphanTables
    THEN <<[kind |-> "orphan_header"]>> \o OrphanSection(node.Children, 1)
    ELSE LET marker == IF node.IsCircular THEN " (circular reference)"
                       ELSE IF node.AlreadyShown THEN " (see above)"
                       ELSE ""
             plain == ~node.IsCircular /\ ~node.AlreadyShown
         IN <<[kind |-> "table", prefix |-> prefix, connector |-> Connector(isLast),
               name |-> node.TableName, marker |-> marker]>>
            \o (IF node.Table # <<>>
                THEN renderTableColumns(node.Table, prefix \o <<Indent(isLast)>>)
                ELSE <<>>)
            \o (IF plain
                THEN renderTextChildren(node.Children, prefix \o <<Indent(isLast)>>, 1)
                ELSE <<>>)

renderTextNode(node, prefix, isLast) ==
    IF node.TableName = OrphanTables
    THEN <<[kind |-> "orphan_header"]>> \o OrphanSection(node.Children, 1)
    ELSE LET marker == IF node.IsCircular THEN " (circular reference)"
                       ELSE IF node.AlreadyShown THEN " (see above)"
                       ELSE ""
             plain == ~node.IsCircular /\ ~node.AlreadyShown
         IN <<[kind |-> "table", prefix |-> prefix, connector |-> Connector(isLast),
               name |-> node.TableName, marker |-> marker]>>
            \o (IF node.Table # <<>> /\ plain
                THEN renderTableColumns(node.Table, prefix \o <<Indent(isLast)>>)
                ELSE <<>>)
            \o (IF plain
                THEN renderTextChildren(node.Children, prefix \o <<Indent(isLast)>>, 1)
                ELSE <<>>)

\* renderTextChildren writing the children from the last to the first.
renderTextChildren_LastFirst(children, prefix, i) ==
    IF i > Len(children) THEN <<>>
    ELSE renderTextChildren_LastFirst(children, prefix, i + 1)
             \o renderTextNode(children[i], prefix, i = Len(children))

renderTextChildren(children, prefix, i) ==
    IF i > Len(children) THEN <<>>
    ELSE renderTextNode(children[i], prefix, i = Len(children))
             \o renderTextChildren(children, prefix, i + 1)

\* The database name line, then the children of the top node.
renderTreeAsText(root, databaseName) ==
    <<[kind |-> "database", name |-> databaseName]>>
        \o renderTextChildren(root.Children, <<>>, 1)

\* ---------------------------------------------------- render: JSON tree
\* A field tagged omitempty: absent from the object when it has its empty value.
OmitEmpty(key, value, empty) == IF value = empty THEN <<>> ELSE (key :> value)

\* column.Constraint after the scan of the constraints: the last single-column
\* PrimaryKey or Unique constraint on the column decides.
RECURSIVE ColumnConstraint(_, _, _, _)
ColumnConstraint(table, columnName, k, acc) ==
    IF k > Len(table.Constraints) THEN acc
    ELSE LET constraint == table.Constraints[k]
             hit == Len(constraint.Columns) = 1 /\ constraint.Columns[1] = columnName
         IN ColumnConstraint(table, columnName, k + 1,
                IF hit /\ constraint.Kind = PrimaryKey THEN "PRIMARY KEY"
                ELSE IF hit /\ constraint.Kind = Unique THEN "UNIQUE"
                ELSE acc)

\* fmt.Sprintf("%s.%s", ReferenceTable, ReferenceColumns[j]) of the last
\* matching position of one foreign key, or acc when none matches.
RECURSIVE ConstraintReference(_, _, _, _)
ConstraintReference(constraint, columnName, j, acc) ==
    IF j > Len(constraint.Columns) THEN acc
    ELSE ConstraintReference(constraint, columnName, j + 1,
            IF constraint.Columns[j] = columnName /\ j <= Len(constraint.ReferenceColumns)
            THEN <<constraint.ReferenceTable, ".", constraint.ReferenceColumns[j]>>
            ELSE acc)

\* column.Reference after the scan of the constraints (<<>> is the empty string).
RECURSIVE ColumnReference(_, _, _, _)
ColumnReference(table, columnName, k, acc) ==
    IF k > Len(table.Constraints) THEN acc
    ELSE ColumnReference(table, columnName, k + 1,
            IF table.Constraints[k].Kind = ForeignKey
            THEN ConstraintReference(table.Constraints[k], columnName, 1, acc)
            ELSE acc)

\* The JSON object of one column.
JSONColumn(table, col) ==
    [name |-> col.Name, type |-> col.Type]
        @@ OmitEmpty("constraint", ColumnConstraint(table, col.Name, 1, ""), "")
        @@ OmitEmpty("reference", ColumnReference(table, col.Name, 1, <<>>), <<>>)

JSONColumns(table) == [i \in 1..Len(table.Columns) |-> JSONColumn(table, table.Columns[i])]

\* convertNode: name and columns always, children when there are any.
RECURSIVE convertNode(_)
RECURSIVE convertNodes(_, _)
\* convertNode filling the columns of every node that has a table, the
\* marker nodes included.
convertNode_ColumnsOfMarkers(node) ==
    LET plain == ~node.IsCircular /\ ~node.AlreadyShown
        columns == IF node.Table # <<>> THEN JSONColumns(node.Table[1]) ELSE <<>>
        children == IF plain THEN convertNodes(node.Children, 1) ELSE <<>>
    IN [name |-> node.TableName, columns |-> columns]
           @@ OmitEmpty("children", children, <<>>)

convertNode(node) ==
    LET plain == ~node.IsCircular /\ ~node.AlreadyShown
        columns == IF node.Table # <<>> /\ plain THEN JSONColumns(node.Table[1]) ELSE <<>>
        children == IF plain THEN convertNodes(node.Children, 1) ELSE <<>>
    IN [name |-> node.TableName, columns |-> columns]
           @@ OmitEmpty("children", children, <<>>)

convertNodes(children, i) ==
    IF i > Len(children) THEN <<>>
    ELSE <<convertNode(children[i])>> \o convertNodes(children, i + 1)

RECURSIVE JSONTables(_, _)
JSONTables(children, i) ==
    IF i > Len(children) THEN <<>>
    ELSE (IF children[i].TableName = OrphanTables THEN <<>>
          ELSE <<convertNode(children[i])>>) \o JSONTables(children, i + 1)

RECURSIVE JSONOrphans(_, _)
JSONOrphans(children, i) ==
    IF i > Len(children) THEN <<>>
    ELSE (IF children[i].TableName = OrphanTables
          THEN convertNodes(children[i].Children, 1)
          ELSE <<>>) \o JSONOrphans(children, i + 1)

\* The document json.MarshalIndent encodes: one object, in a one-element output.
renderTreeAsJSON(root, databaseName) ==
    <<[database |-> databaseName, tables |-> JSONTables(root.Children, 1)]
          @@ OmitEmpty("orphans", JSONOrphans(root.Children, 1), <<>>)>>

\* ----------------------------------------------------------- render: flat
RECURSIVE FlatTextTables(_, _, _)
FlatTextTables(gr, tableNames, i) ==
    IF i > Len(tableNames) THEN <<>>
    ELSE LET table == gr.Nodes[tableNames[i]]
         IN <<[kind |-> "table", name |-> tableNames[i]]>>
            \o [c \in 1..Len(table.Columns) |->
                   [kind |-> "column", name |-> table.Columns[c].Name,
                    type |-> table.Columns[c].Type,
                    constraints |-> appendConstraints(table, table.Columns[c].Name)]]
            \o FlatTextTables(gr, tableNames, i + 1)

renderFlatAsText(gr, order) ==
    <<[kind |-> "database", name |-> gr.DatabaseName],
      [kind |-> "count", tables |-> Cardinality(DOMAIN gr.Nodes)]>>
        \o FlatTextTables(gr, getSortedTableNames(gr, order), 1)

\* renderFlatAsJSON with the two ends of every edge exchanged.
renderFlatAsJSON_EndsExchanged(gr, order) ==
    LET tableNames == getSortedTableNames(gr, order)
    IN <<[database |-> gr.DatabaseName,
          tables |-> [i \in 1..Len(tableNames) |->
                         [name |-> tableNames[i],
                          columns |-> JSONColumns(gr.Nodes[tableNames[i]])]],
          edges |-> [i \in 1..Len(gr.Edges) |->
                        [from |-> gr.Edges[i].ToTable,
                         to |-> gr.Edges[i].FromTable,
                         columns |-> gr.Edges[i].Columns,
                         referenceColumns |-> gr.Edges[i].ReferenceColumns]]]>>

renderFlatAsJSON(gr, order) ==
    LET tableNames == getSortedTableNames(gr, order)
    IN <<[database |-> gr.DatabaseName,
          tables |-> [i \in 1..Len(tableNames) |->
                         [name |-> tableNames[i],
                          columns |-> JSONColumns(gr.Nodes[tableNames[i]])]],
          edges |-> [i \in 1..Len(gr.Edges) |->
                        [from |-> gr.Edges[i].FromTable,
                         to |-> gr.Edges[i].ToTable,
                         columns |-> gr.Edges[i].Columns,
                         referenceColumns |-> gr.Edges[i].ReferenceColumns]]]>>

\* -------------------------------------------------------- render: diagram
\* The constraint tags of a column in the diagram source.
RECURSIVE D2Constraints(_, _, _)
D2Constraints(table, columnName, k) ==
    IF k > Len(table.Constraints) THEN <<>>
    ELSE LET constraint == table.Constraints[k]
             isInConstraint ==
                 \E c \in 1..Len(constraint.Columns) : constraint.Columns[c] = columnName
         IN (IF isInConstraint /\ constraint.Kind = PrimaryKey THEN <<"PK">>
             ELSE IF isInConstraint /\ constraint.Kind = Unique THEN <<"UNIQUE">>
             ELSE IF isInConstraint /\ constraint.Kind = ForeignKey THEN <<"FK">>
             ELSE <<>>) \o D2Constraints(table, columnName, k + 1)

\* D2EdgeRelations with one relation per edge, for its first column.
D2EdgeRelations_FirstColumnOnly(edge, i) ==
    IF Len(edge.Columns) >= 1 /\ Len(edge.ReferenceColumns) >= 1
    THEN <<[kind |-> "relation", from |-> edge.FromTable, column |-> edge.Columns[1],
            to |-> edge.ToTable, referenceColumn |-> edge.ReferenceColumns[1]]>>
    ELSE <<>>

\* One relation per position of an edge that has a reference column.
RECURSIVE D2EdgeRelations(_, _)
D2EdgeRelations(edge, i) ==
    IF i > Len(edge.Columns) THEN <<>>
    ELSE (IF i <= Len(edge.ReferenceColumns)
          THEN <<[kind |-> "relation", from |-> edge.FromTable, column |-> edge.Columns[i],
                  to |-> edge.ToTable, referenceColumn |-> edge.ReferenceColumns[i]]>>
          ELSE <<>>) \o D2EdgeRelations(edge, i + 1)

RECURSIVE D2Relations(_, _)
D2Relations(edges, i) ==
    IF i > Len(edges) THEN <<>>
    ELSE D2EdgeRelations(edges[i], 1) \o D2Relations(edges, i + 1)

\* The D2 source: one sql_table shape per table in sorted order, then the
\* relations in edge order.
generateD2Diagram(gr, order) ==
    LET tableNames == getSortedTableNames(gr, order)
    IN [i \in 1..Len(tableNames) |->
           LET table == gr.Nodes[tableNames[i]]
           IN [kind |-> "sql_table", name |-> tableNames[i],
               columns |-> [c \in 1..Len(table.Columns) |->
                   [name |-> table.Columns[c].Name, type |-> table.Columns[c].Type,
                    constraint |-> D2Constraints(table, table.Columns[c].Name, 1)]]]]
       \o D2Relations(gr.Edges, 1)

\* renderGraphAsText: the ASCII rendering of the D2 source by the D2 library,
\* kept as the source it was compiled from.
renderGraphAsText(gr, order) ==
    <<[kind |-> "direction", value |-> "left"]>> \o generateD2Diagram(gr, order)

\* ------------------------------------------------------ render: buildTree
\* buildTreeNodeCase without the visited check.
buildTreeNodeCase_NoVisitedCheck(tableName, vis, proc) ==
    IF tableName \in proc THEN "circular" ELSE "expand"

\* buildTreeNodeCase with the visited check before the processing check.
buildTreeNodeCase_VisitedFirst(tableName, vis, proc) ==
    IF tableName \in vis THEN "shown"
    ELSE IF tableName \in proc THEN "circular"
    ELSE "expand"

\* The branch buildTreeNode takes for a table: the processing check comes
\* first, then the visited check.
buildTreeNodeCase(tableName, vis, proc) ==
    IF tableName \in proc THEN "circular"
    ELSE IF tableName \in vis THEN "shown"
    ELSE "expand"

\* buildTree starts from the smallest table when there is no root table.
UsesFallback(gr) == DOMAIN gr.Nodes \subseteq hasIncomingEdge(gr) /\ DOMAIN gr.Nodes # {}

\* The tables buildTree calls buildTreeNode on, in call order.
NoRoots(gr, order) ==
    Len(findRootTables(gr, order)) = 0 /\ Cardinality(DOMAIN gr.Nodes) > 0

StartTables(gr, order) ==
    IF NoRoots(gr, order) THEN <<firstTable(gr, order)>> ELSE findRootTables(gr, order)

\* A frame of the traversal: the node under construction, the tables still to
\* call buildTreeNode on, and the next of them. The frame of buildTree itself
\* holds the virtual root collecting the roots' nodes; with the fallback, the
\* one node built is the top node instead.
Frame(node, kids, fallback) ==
    [node |-> node, kids |-> kids, next |-> 1, fallback |-> fallback]

\* The orphan_tables node, appended as the last child when there are orphans.
AddOrphans(gr, rootNode, vis, order) ==
    LET orphans == findOrphanTables(gr, vis, order)
        orphanRoot ==
            TreeNode(OrphanTables, <<>>,
                     [i \in 1..Len(orphans) |->
                         TreeNode(orphans[i], NodeTable(gr, orphans[i]), <<>>, FALSE, FALSE)],
                     FALSE, FALSE)
    IN IF Len(orphans) > 0
       THEN [rootNode EXCEPT !.Children = Append(@, orphanRoot)]
       ELSE rootNode

\* TopNode with the start table's node kept below a top node named after the
\* database, with or without fallback.
TopNode_UnderDatabase(gr, frame) == frame.node

\* The top node buildTree returns, from its finished frame.
TopNode(gr, frame) == IF frame.fallback THEN frame.node.Children[1] ELSE frame.node

\* ---------------------------------------------------------------- state
VARIABLES
    pc,          \* "start", "built", "tree" (inside buildTree), "done"
    db,          \* the *database.Database handed to Build
    g,           \* the *graph.SchemaGraph Build returned
    buildErr,    \* the error Build returned
    format,      \* Render's format argument
    shape,       \* Render's shape argument
    renderer,    \* history: the renderer Render called, "" for none
    stack,       \* the call stack of buildTree / buildTreeNode
    visited,     \* the tables with visited[t] = true
    processing,  \* the tables with processing[t] = true
    expanded,    \* history: how often each table was expanded
    steps,       \* history: the calls and returns of buildTreeNode so far
    tree,        \* the *TreeNode buildTree returned
    out,         \* the string Render returned
    err,         \* the error Render returned
    again,       \* the first call's arguments and results, once Render is
                 \* called a second time (<<>> before)
    chart        \* the diagram layout engine ordering a component (<<>> before)

vars == <<pc, db, g, buildErr, format, shape, renderer, stack, visited, processing,
          expanded, steps, tree, out, err, again, chart>>

buildVars == <<db, g, buildErr>>
treeVars == <<stack, visited, processing, expanded, steps, tree>>

Init ==
    /\ pc = "start"
    /\ \/ db = <<>>
       \/ \E ns \in NameSeqs : \E fks \in FKSeqs(Len(ns)) : db = <<Schema(ns, fks)>>
    /\ g = <<>>
    /\ buildErr = <<>>
    /\ format = ""
    /\ shape = ""
    /\ renderer = ""
    /\ stack = <<>>
    /\ visited = {}
    /\ processing = {}
    /\ expanded = [t \in Names |-> 0]
    /\ steps = 0
    /\ tree = <<>>
    /\ out = <<>>
    /\ err = <<>>
    /\ again = <<>>
    /\ chart = <<>>

\* graph.Build(db)
DoBuild ==
    /\ pc = "start"
    /\ pc' = "built"
    /\ g' = Build(db).g
    /\ buildErr' = Build(db).err
    /\ UNCHANGED <<db, format, shape, renderer, treeVars, out, err, again, chart>>

\* A second call of Render repeats the arguments of the first.
Repeats(f, s) == IF again = <<>> THEN TRUE ELSE f = again[1].format /\ s = again[1].shape

\* Render returns an error: nil graph, json with graph, or no such pair.
RenderRejected(f, s) ==
    /\ pc = "built"
    /\ Repeats(f, s)
    /\ RenderCase(g, f, s) \in {"nil", "json_graph", "default"}
    /\ pc' = "done"
    /\ format' = f
    /\ shape' = s
    /\ renderer' = ""
    /\ out' = <<>>
    /\ err' = RenderError(RenderCase(g, f, s), f, s)
    /\ UNCHANGED <<buildVars, treeVars, again, chart>>

\* Render with shape flat.
RenderFlat(f, s) ==
    /\ pc = "built"
    /\ Repeats(f, s)
    /\ RenderCase(g, f, s) \in {"text_flat", "json_flat"}
    /\ pc' = "done"
    /\ format' = f
    /\ shape' = s
    /\ renderer' = IF RenderCase(g, f, s) = "text_flat"
                   THEN "renderFlatAsText" ELSE "renderFlatAsJSON"
    /\ \E order \in IterationOrders(g[1]) :
           out' = IF RenderCase(g, f, s) = "text_flat"
                  THEN renderFlatAsText(g[1], order) ELSE renderFlatAsJSON(g[1], order)
    /\ err' = <<>>
    /\ UNCHANGED <<buildVars, treeVars, again, chart>>

\* Render with format text and shape graph; the D2 library renders the source.
RenderGraph(f, s) ==
    /\ pc = "built"
    /\ Repeats(f, s)
    /\ RenderCase(g, f, s) = "text_graph"
    /\ pc' = "done"
    /\ format' = f
    /\ shape' = s
    /\ renderer' = "renderGraphAsText"
    /\ \E order \in IterationOrders(g[1]) : out' = renderGraphAsText(g[1], order)
    /\ err' = <<>>
    /\ UNCHANGED <<buildVars, treeVars, again, chart>>

\* The errors renderGraphAsText wraps when the D2 library's text ruler,
\* compiler or ASCII renderer fails.
D2Failures ==
    {"failed to create text ruler", "failed to compile D2 diagram",
     "failed to render ASCII"}

\* Render with format text and shape graph; a step of the D2 library fails.
RenderGraphFails(f, s) ==
    /\ pc = "built"
    /\ Repeats(f, s)
    /\ RenderCase(g, f, s) = "text_graph"
    /\ pc' = "done"
    /\ format' = f
    /\ shape' = s
    /\ renderer' = "renderGraphAsText"
    /\ out' = <<>>
    /\ \E failure \in D2Failures : err' = <<failure>>
    /\ UNCHANGED <<buildVars, treeVars, again, chart>>

\* RenderTree with marker maps that outlive the call.
RenderTree_MarkersKept(f, s) ==
    /\ pc = "built"
    /\ Repeats(f, s)
    /\ RenderCase(g, f, s) \in {"text_tree", "json_tree"}
    /\ pc' = "tree"
    /\ format' = f
    /\ shape' = s
    /\ renderer' = IF RenderCase(g, f, s) = "text_tree"
                   THEN "renderTreeAsText" ELSE "renderTreeAsJSON"
    /\ \E order \in IterationOrders(g[1]) :
           stack' = <<Frame(TreeNode(g[1].DatabaseName, <<>>, <<>>, FALSE, FALSE),
                            StartTables(g[1], order), NoRoots(g[1], order))>>
    /\ expanded' = [t \in DOMAIN expanded |-> 0]
    /\ steps' = 0
    /\ UNCHANGED <<buildVars, visited, processing, tree, out, err, again, chart>>

\* Render with shape tree enters buildTree: fresh marker maps, the roots found.
RenderTree(f, s) ==
    /\ pc = "built"
    /\ Repeats(f, s)
    /\ RenderCase(g, f, s) \in {"text_tree", "json_tree"}
    /\ pc' = "tree"
    /\ format' = f
    /\ shape' = s
    /\ renderer' = IF RenderCase(g, f, s) = "text_tree"
                   THEN "renderTreeAsText" ELSE "renderTreeAsJSON"
    /\ \E order \in IterationOrders(g[1]) :
           stack' = <<Frame(TreeNode(g[1].DatabaseName, <<>>, <<>>, FALSE, FALSE),
                            StartTables(g[1], order), NoRoots(g[1], order))>>
    /\ visited' = {}
    /\ processing' = {}
    /\ expanded' = [t \in DOMAIN expanded |-> 0]
    /\ steps' = 0
    /\ UNCHANGED <<buildVars, tree, out, err, again, chart>>

\* The frame on top of the stack and the table it calls buildTreeNode on next.
Top == stack[Len(stack)]
Calling == Top.kids[Top.next]
HasCall == pc = "tree" /\ Top.next <= Len(Top.kids)

\* The caller's frame after the callee returned node.
Returned(frame, node) ==
    [frame EXCEPT !.node.Children = Append(@, node), !.next = @ + 1]

\* buildTreeNode on a table in processing: a circular marker node.
VisitCircular ==
    /\ HasCall
    /\ buildTreeNodeCase(Calling, visited, processing) = "circular"
    /\ stack' = [stack EXCEPT ![Len(stack)] =
                    Returned(@, TreeNode(Calling, NodeTable(g[1], Calling), <<>>, TRUE, FALSE))]
    /\ steps' = steps + 1
    /\ UNCHANGED <<pc, buildVars, format, shape, renderer, visited, processing, expanded, tree, out, err, again, chart>>

\* VisitAlreadyShown returning a node without the already-shown flag.
VisitAlreadyShown_NoFlag ==
    /\ HasCall
    /\ buildTreeNodeCase(Calling, visited, processing) = "shown"
    /\ stack' = [stack EXCEPT ![Len(stack)] =
                    Returned(@, TreeNode(Calling, NodeTable(g[1], Calling), <<>>, FALSE, FALSE))]
    /\ steps' = steps + 1
    /\ UNCHANGED <<pc, buildVars, format, shape, renderer, visited, processing, expanded, tree, out, err, again, chart>>

\* buildTreeNode on a visited table: an already-shown marker node.
VisitAlreadyShown ==
    /\ HasCall
    /\ buildTreeNodeCase(Calling, visited, processing) = "shown"
    /\ stack' = [stack EXCEPT ![Len(stack)] =
                    Returned(@, TreeNode(Calling, NodeTable(g[1], Calling), <<>>, FALSE, TRUE))]
    /\ steps' = steps + 1
    /\ UNCHANGED <<pc, buildVars, format, shape, renderer, visited, processing, expanded, tree, out, err, again, chart>>

\* Expand without the visited mark.
Expand_NoVisitedMark ==
    /\ HasCall
    /\ buildTreeNodeCase(Calling, visited, processing) = "expand"
    /\ processing' = processing \cup {Calling}
    /\ expanded' = [expanded EXCEPT ![Calling] = @ + 1]
    /\ stack' = Append(stack,
                       Frame(TreeNode(Calling, NodeTable(g[1], Calling), <<>>, FALSE, FALSE),
                             buildAdjacencyList(g[1])[Calling], FALSE))
    /\ steps' = steps + 1
    /\ UNCHANGED <<pc, buildVars, format, shape, renderer, visited, tree, out, err, again, chart>>

\* buildTreeNode on a new table: mark it and recurse into its children.
Expand ==
    /\ HasCall
    /\ buildTreeNodeCase(Calling, visited, processing) = "expand"
    /\ visited' = visited \cup {Calling}
    /\ processing' = processing \cup {Calling}
    /\ expanded' = [expanded EXCEPT ![Calling] = @ + 1]
    /\ stack' = Append(stack,
                       Frame(TreeNode(Calling, NodeTable(g[1], Calling), <<>>, FALSE, FALSE),
                             buildAdjacencyList(g[1])[Calling], FALSE))
    /\ steps' = steps + 1
    /\ UNCHANGED <<pc, buildVars, format, shape, renderer, tree, out, err, again, chart>>

\* Return that leaves the processing mark of the table in place.
Return_ProcessingKept ==
    /\ pc = "tree"
    /\ Len(stack) > 1
    /\ Top.next > Len(Top.kids)
    /\ stack' = [SubSeq(stack, 1, Len(stack) - 1) EXCEPT ![Len(stack) - 1] =
                    Returned(@, Top.node)]
    /\ steps' = steps + 1
    /\ UNCHANGED <<pc, buildVars, format, shape, renderer, visited, processing, expanded, tree, out, err, again, chart>>

\* buildTreeNode returns from an expanded table: processing cleared.
Return ==
    /\ pc = "tree"
    /\ Len(stack) > 1
    /\ Top.next > Len(Top.kids)
    /\ processing' = processing \ {Top.node.TableName}
    /\ stack' = [SubSeq(stack, 1, Len(stack) - 1) EXCEPT ![Len(stack) - 1] =
                    Returned(@, Top.node)]
    /\ steps' = steps + 1
    /\ UNCHANGED <<pc, buildVars, format, shape, renderer, visited, expanded, tree, out, err, again, chart>>

\* buildTree adds the orphans and returns; Render formats the tree.
Finish ==
    /\ pc = "tree"
    /\ Len(stack) = 1
    /\ Top.next > Len(Top.kids)
    /\ \E order \in IterationOrders(g[1]) :
           LET root == AddOrphans(g[1], TopNode(g[1], Top), visited, order)
           IN /\ tree' = <<root>>
              /\ out' = IF renderer = "renderTreeAsText"
                        THEN renderTreeAsText(root, g[1].DatabaseName)
                        ELSE renderTreeAsJSON(root, g[1].DatabaseName)
    /\ err' = <<>>
    /\ pc' = "done"
    /\ stack' = <<>>
    /\ UNCHANGED <<buildVars, format, shape, renderer, visited, processing, expanded,
                   steps, again, chart>>

\* One step of buildTree.
TreeStep == VisitCircular \/ VisitAlreadyShown \/ Expand \/ Return \/ Finish

\* The guards of TreeStep: a call of buildTreeNode that takes one of its three
\* branches, or a return.
TreeStepEnabled ==
    /\ pc = "tree"
    /\ stack # <<>>
    /\ \/ /\ Top.next <= Len(Top.kids)
          /\ buildTreeNodeCase(Calling, visited, processing) \in {"circular", "shown", "expand"}
          /\ Calling \in DOMAIN buildAdjacencyList(g[1])
       \/ Top.next > Len(Top.kids)

Next ==
    \/ DoBuild
    \/ \E f \in Formats, s \in Shapes : RenderRejected(f, s)
    \/ \E f \in Formats, s \in Shapes : RenderFlat(f, s)
    \/ \E f \in Formats, s \in Shapes : RenderGraph(f, s)
    \/ \E f \in Formats, s \in Shapes : RenderGraphFails(f, s)
    \/ \E f \in Formats, s \in Shapes : RenderTree(f, s)
    \/ VisitCircular
    \/ VisitAlreadyShown
    \/ Expand
    \/ Return
    \/ Finish

Spec == Init /\ [][Next]_vars

\* The same program on the schemas that vary the constraints, rendered with
\* the formats and shapes of the package.
RichInit ==
    /\ pc = "start"
    /\ \E ns \in RichNameSeqs : \E cs \in ConstraintSeqs(Len(ns)) :
           db = <<RichSchema(ns, cs)>>
    /\ g = <<>>
    /\ buildErr = <<>>
    /\ format = ""
    /\ shape = ""
    /\ renderer = ""
    /\ stack = <<>>
    /\ visited = {}
    /\ processing = {}
    /\ expanded = [t \in Names |-> 0]
    /\ steps = 0
    /\ tree = <<>>
    /\ out = <<>>
    /\ err = <<>>
    /\ again = <<>>
    /\ chart = <<>>

PackageFormats == {FormatText, FormatJSON}
PackageShapes == {ShapeTree, ShapeFlat, ShapeGraph}

RichNext ==
    \/ DoBuild
    \/ \E f \in PackageFormats, s \in PackageShapes : RenderRejected(f, s)
    \/ \E f \in PackageFormats, s \in PackageShapes : RenderFlat(f, s)
    \/ \E f \in PackageFormats, s \in PackageShapes : RenderGraph(f, s)
    \/ \E f \in PackageFormats, s \in PackageShapes : RenderTree(f, s)
    \/ TreeStep

RichSpec == RichInit /\ [][RichNext]_vars

\* A caller that renders the graph a second time with the same arguments
\* remembers what the first call returned.
RenderAgain ==
    /\ pc = "done"
    /\ again = <<>>
    /\ pc' = "built"
    /\ again' = <<[format |-> format, shape |-> shape, out |-> out, err |-> err,
                   tree |-> tree]>>
    /\ UNCHANGED <<buildVars, format, shape, renderer, treeVars, out, err, chart>>

TwiceNext == Next \/ RenderAgain

\* Build once, Render twice.
TwiceSpec == Init /\ [][TwiceNext]_vars

\* --------------------------------------------- diagram layout: ordering
\* The tables joined to t by an edge, in either direction.
Neighbours(gr, t) ==
    {e.ToTable : e \in {d \in EdgeSet(gr) : d.FromTable = t}}
        \cup {e.FromTable : e \in {d \in EdgeSet(gr) : d.ToTable = t}}

\* The connected component of t: the tables reachable from t over edges
\* taken as undirected.
RECURSIVE ComponentFrom(_, _)
ComponentFrom(gr, S) ==
    LET more == S \cup UNION {Neighbours(gr, t) : t \in S}
    IN IF more = S THEN S ELSE ComponentFrom(gr, more)

Components(gr) == {ComponentFrom(gr, {t}) : t \in DOMAIN gr.Nodes}

\* The orders in which the undirected depth-first search, entered from the
\* tables in lexicographic order, may discover a component: the smallest
\* table first, every later table joined to an earlier one.
ComponentOrders(gr, component) ==
    {order \in [1..Cardinality(component) -> component] :
        /\ \A i, j \in 1..Len(order) : i # j => order[i] # order[j]
        /\ \A i \in 1..Len(order) : ~NameLess(order[i], order[1])
        /\ \A i \in 2..Len(order) :
               \E j \in 1..(i - 1) : order[j] \in Neighbours(gr, order[i])}

\* The in-degree of the ordering, counted on the edge's from table: the
\* number of edges of the component that leave the table.
inDegree(gr, component) ==
    [t \in component |->
        Cardinality({i \in 1..Len(gr.Edges) :
                        gr.Edges[i].FromTable = t /\ gr.Edges[i].ToTable \in component})]

\* The number of edges from u to t.
EdgesBetween(gr, u, t) ==
    Cardinality({i \in 1..Len(gr.Edges) :
                    gr.Edges[i].FromTable = u /\ gr.Edges[i].ToTable = t})

\* The ready queue after a removal, kept as the tables were added.
readyQueue_NotResorted(queue, ready) == queue \o ready

\* The ready queue after a removal: the tables that became ready are added
\* and the queue is sorted again.
readyQueue(queue, ready) == sortSlice(queue \o ready)

\* The ordering starts on a component: the in-degrees counted, the tables
\* without outgoing reference ready, in lexicographic order.
ChartStart ==
    /\ pc = "built"
    /\ g # <<>>
    /\ \E component \in Components(g[1]) : \E order \in ComponentOrders(g[1], component) :
           LET degree == inDegree(g[1], component)
           IN chart' = <<[component |-> order,
                          inDegree |-> degree,
                          queue |-> sortSlice(SelectSeq(order, LAMBDA t : degree[t] = 0)),
                          result |-> <<>>]>>
    /\ pc' = "chart"
    /\ UNCHANGED <<buildVars, format, shape, renderer, treeVars, out, err, again>>

\* One removal: the first table of the ready queue is placed, the in-degree
\* of every table that references it drops by one per edge, and the tables
\* that reach zero join the queue.
ChartRemove ==
    /\ pc = "chart"
    /\ chart[1].queue # <<>>
    /\ LET c == chart[1]
           t == Head(c.queue)
           degree == [u \in DOMAIN c.inDegree |-> c.inDegree[u] - EdgesBetween(g[1], u, t)]
           ready == SelectSeq(c.component, LAMBDA u : c.inDegree[u] > 0 /\ degree[u] = 0)
       IN chart' = <<[c EXCEPT !.inDegree = degree,
                               !.queue = readyQueue(Tail(c.queue), ready),
                               !.result = Append(c.result, t)]>>
    /\ UNCHANGED <<pc, buildVars, format, shape, renderer, treeVars, out, err, again>>

\* The queue has drained: the tables left over are appended in their
\* component order.
ChartDrained ==
    /\ pc = "chart"
    /\ chart[1].queue = <<>>
    /\ LET c == chart[1]
           placed == {c.result[i] : i \in 1..Len(c.result)}
       IN chart' = <<[c EXCEPT !.result =
                         c.result \o SelectSeq(c.component, LAMBDA u : u \notin placed)]>>
    /\ pc' = "done"
    /\ UNCHANGED <<buildVars, format, shape, renderer, treeVars, out, err, again>>

ChartNext == DoBuild \/ ChartStart \/ ChartRemove \/ ChartDrained

\* Build, then the ordering of one component of the diagram.
ChartSpec == Init /\ [][ChartNext]_vars

\* ------------------------------------------------------------ vocabulary
\* A tree render that returned.
TreeDone == pc = "done" /\ g # <<>> /\ shape = ShapeTree /\ format \in {FormatText, FormatJSON}

Indices(seq) == 1..Len(seq)

\* The names of a set in ascending order.
RECURSIVE SortNames(_)
SortNames(S) ==
    IF S = {} THEN <<>>
    ELSE LET m == CHOOSE x \in S : \A y \in S : ~NameLess(y, x)
         IN <<m>> \o SortNames(S \ {m})

\* The number of tables buildTree calls buildTreeNode on.
StartCount(gr) ==
    IF UsesFallback(gr) THEN 1 ELSE Cardinality(DOMAIN gr.Nodes \ hasIncomingEdge(gr))

\* The table names a sequence of annotation pieces refers to.
AnnotationTables(pieces) == {pieces[i + 1] : i \in {j \in Indices(pieces) : pieces[j] = " -> "}}

\* The table names a text output mentions: table lines, orphan bullets and
\* the references of column lines.
TextMentions(o) ==
    {o[i].name : i \in {j \in Indices(o) : o[j].kind \in {"table", "orphan"}}}
        \cup UNION {AnnotationTables(o[i].constraints) :
                        i \in {j \in Indices(o) : o[j].kind = "column"}}

\* The table names a sequence of JSON table objects mentions.
RECURSIVE JSONMentions(_)
JSONMentions(tables) ==
    UNION {{tables[i].name}
             \cup {tables[i].columns[c].reference[1] :
                      c \in {d \in Indices(tables[i].columns) :
                                "reference" \in DOMAIN tables[i].columns[d]}}
             \cup (IF "children" \in DOMAIN tables[i]
                   THEN JSONMentions(tables[i].children) ELSE {})
           : i \in Indices(tables)}

\* The table names the output of a tree render mentions.
TreeMentions ==
    IF format = FormatText THEN TextMentions(out)
    ELSE JSONMentions(out[1].tables)
             \cup (IF "orphans" \in DOMAIN out[1] THEN JSONMentions(out[1].orphans) ELSE {})

\* The nodes of a tree, the top node included.
RECURSIVE TreeNodes(_)
TreeNodes(node) == {node} \cup UNION {TreeNodes(node.Children[i]) : i \in Indices(node.Children)}

\* The tables t references directly, and everything reachable from a set.
RefersTo(gr, t) == {e.ToTable : e \in {d \in EdgeSet(gr) : d.FromTable = t}}

RECURSIVE ReachableFrom(_, _)
ReachableFrom(gr, S) ==
    LET more == S \cup UNION {RefersTo(gr, t) : t \in S}
    IN IF more = S THEN S ELSE ReachableFrom(gr, more)

\* t lies on a directed foreign-key cycle.
OnCycle(gr, t) == t \in ReachableFrom(gr, RefersTo(gr, t))

\* The lines of a text tree that carry the circular marker.
CircularLines(o) ==
    {i \in Indices(o) : o[i].kind = "table" /\ o[i].marker = " (circular reference)"}

\* The lines of a text tree that are full table entries of t.
EntryLines(o, t) ==
    {i \in Indices(o) : o[i].kind = "table" /\ o[i].name = t /\ o[i].marker = ""}

\* ----------------------------------------------------------------- C1
\* C1: the text-tree and JSON-tree renderings mention every table name of
\* G.Nodes at least once (tables on cycles, self-referencing tables, tables of
\* a component without root and tables without edges included).
C1_EveryTableMentioned == TreeDone => DOMAIN g[1].Nodes \subseteq TreeMentions

\* ----------------------------------------------------------------- C2
\* C2: tree building terminates for every schema graph, self-references,
\* multi-table cycles and graphs without root included: no table is expanded
\* more than once, the recursion is never deeper than the number of tables,
\* the calls and returns of buildTreeNode (each step of the traversal is one)
\* never exceed one call per start table and per edge plus one return per
\* table, and the traversal can always take its next step until buildTree
\* returns.
C2_TreeBuildingTerminates ==
    /\ \A t \in Names : expanded[t] <= 1
    /\ pc = "tree" =>
          /\ Len(stack) <= Cardinality(DOMAIN g[1].Nodes) + 1
          /\ steps <= StartCount(g[1]) + Len(g[1].Edges)
                          + Cardinality(DOMAIN g[1].Nodes)
          /\ TreeStepEnabled

\* (TreeStepEnabled is ENABLED TreeStep, written as the guards of the steps.)

\* A tree render returned on a graph without root that has a self-reference
\* and a cycle through two tables.
C2_Witness ==
    /\ TreeDone
    /\ UsesFallback(g[1])
    /\ \E e \in EdgeSet(g[1]) : e.FromTable = e.ToTable
    /\ \E e \in EdgeSet(g[1]) :
           e.FromTable # e.ToTable /\ e.FromTable \in ReachableFrom(g[1], {e.ToTable})
    /\ \A t \in DOMAIN g[1].Nodes : expanded[t] = 1

\* ----------------------------------------------------------------- C3
\* C3: when the traversal enters a directed foreign-key cycle (a visited
\* table lies on one), the tree has a circular node and the text tree has a
\* line carrying the marker "(circular reference)".
C3_EnteredCycleIsMarked ==
    (TreeDone /\ \E t \in visited : OnCycle(g[1], t))
        => /\ \E n \in TreeNodes(tree[1]) : n.IsCircular
           /\ format = FormatText => CircularLines(out) # {}

\* The text tree of a cycle through three tables carries the marker.
C3_Witness ==
    /\ TreeDone
    /\ format = FormatText
    /\ Cardinality(DOMAIN g[1].Nodes) = 3
    /\ Len(g[1].Edges) = 3
    /\ \A e \in EdgeSet(g[1]) : e.FromTable # e.ToTable
    /\ \A t \in DOMAIN g[1].Nodes : t \in visited /\ OnCycle(g[1], t)
    /\ Cardinality({e.ToTable : e \in EdgeSet(g[1])}) = 3
    /\ CircularLines(out) # {}

\* ----------------------------------------------------------------- C4
\* The graph is one table whose single foreign key references the table itself.
SingleSelfReference(gr) ==
    /\ Cardinality(DOMAIN gr.Nodes) = 1
    /\ Len(gr.Edges) = 1
    /\ gr.Edges[1].FromTable = gr.Edges[1].ToTable

\* C4: for a single self-referencing table the tree output shows the table
\* once as a table entry (with its columns), the self-edge occurrence as one
\* circular-marked node without children, and the table is expanded once.
C4_SelfReferenceShownOnce ==
    (TreeDone /\ SingleSelfReference(g[1]))
        => LET t == g[1].Edges[1].FromTable
           IN /\ expanded[t] = 1
              /\ format = FormatText =>
                    /\ Cardinality(EntryLines(out, t)) = 1
                    /\ Cardinality(CircularLines(out)) = 1
                    /\ \A i \in CircularLines(out) : out[i].name = t
              /\ format = FormatJSON =>
                    /\ Len(out[1].tables) = 1
                    /\ out[1].tables[1].name = t
                    /\ out[1].tables[1].columns # <<>>
                    /\ "children" \in DOMAIN out[1].tables[1]

\* ----------------------------------------------------------------- C5
\* The tables no foreign-key edge touches.
IsolatedTables(gr) ==
    {t \in DOMAIN gr.Nodes : \A e \in EdgeSet(gr) : e.FromTable # t /\ e.ToTable # t}

\* C5: a table without foreign-key edges, next to two tables joined by a
\* foreign key, appears in the tree output under the orphan_tables node that
\* is the last child of the top node (text: the orphan section; JSON: the
\* orphans array, not tables), the orphans sorted; in the flat text format
\* it is a normal entry.
C5_OrphanInSeparateSection ==
    (/\ pc = "done"
     /\ g # <<>>
     /\ err = <<>>
     /\ IsolatedTables(g[1]) # {}
     /\ \E e \in EdgeSet(g[1]) : e.FromTable # e.ToTable)
        => /\ TreeDone =>
                LET kids == tree[1].Children
                IN /\ Len(kids) > 0
                   /\ kids[Len(kids)].TableName = OrphanTables
                   /\ [i \in Indices(kids[Len(kids)].Children) |->
                          kids[Len(kids)].Children[i].TableName]
                        = SortNames(IsolatedTables(g[1]))
                   /\ format = FormatText =>
                         \A t \in IsolatedTables(g[1]) :
                             /\ \E i \in Indices(out) : out[i].kind = "orphan" /\ out[i].name = t
                             /\ EntryLines(out, t) = {}
                   /\ format = FormatJSON =>
                         /\ "orphans" \in DOMAIN out[1]
                         /\ IsolatedTables(g[1]) \cap JSONMentions(out[1].tables) = {}
           /\ (shape = ShapeFlat /\ format = FormatText) =>
                \A t \in IsolatedTables(g[1]) :
                    \E i \in Indices(out) : out[i].kind = "table" /\ out[i].name = t

\* ----------------------------------------------------------------- C6
\* C6: Render on a nil graph returns the nil-graph error and the empty
\* string for every format and shape, decided before the dispatch; buildTree
\* is not entered.
C6_NilGraphRejected ==
    (pc \in {"tree", "done"} /\ g = <<>>)
        => /\ pc = "done"
           /\ err = <<"schema graph cannot be nil">>
           /\ out = <<>>
           /\ tree = <<>>

\* Render returned on a nil graph for the pair json/graph, which the
\* dispatch would reject with an error of its own.
C6_Witness ==
    /\ pc = "done"
    /\ g = <<>>
    /\ format = FormatJSON
    /\ shape = ShapeGraph
    /\ err # <<>>

\* ----------------------------------------------------------------- C7
\* The renderer Render dispatches each supported pair to.
SupportedPairs ==
    {<<FormatText, ShapeTree>>, <<FormatJSON, ShapeTree>>, <<FormatText, ShapeFlat>>,
     <<FormatJSON, ShapeFlat>>, <<FormatText, ShapeGraph>>}

RendererOf(f, s) ==
    IF <<f, s>> = <<FormatText, ShapeTree>> THEN "renderTreeAsText"
    ELSE IF <<f, s>> = <<FormatJSON, ShapeTree>> THEN "renderTreeAsJSON"
    ELSE IF <<f, s>> = <<FormatText, ShapeFlat>> THEN "renderFlatAsText"
    ELSE IF <<f, s>> = <<FormatJSON, ShapeFlat>> THEN "renderFlatAsJSON"
    ELSE IF <<f, s>> = <<FormatText, ShapeGraph>> THEN "renderGraphAsText"
    ELSE ""

C8_ChartShapeSupported ==
    (pc = "done" /\ g # <<>>)
        => /\ (format = FormatText /\ shape = ShapeChart) => (err = <<>> /\ out # <<>>)
           /\ (format = FormatJSON /\ shape = ShapeChart) => err # <<>>
           /\ CLIAccepts(format, shape) => err = <<>>

\* ----------------------------------------------------------------- C9
\* C9: Build(nil) returns a nil graph and a non-nil error; Build on a
\* non-nil schema returns a non-nil graph and a nil error.
C9_BuildNilContract ==
    pc # "start"
        => /\ db = <<>> => (g = <<>> /\ buildErr = <<"database is nil">>)
           /\ db # <<>> => (g # <<>> /\ buildErr = <<>>)

\* Build returned on a nil schema.
C9_Witness == pc = "built" /\ db = <<>> /\ g = <<>> /\ buildErr # <<>>

\* ---------------------------------------------------------------- C10
\* The foreign-key constraints of a schema, <<table position, constraint
\* position>>, whose referenced table is one of the schema's tables, or not.
ForeignKeys(d) ==
    {p \in UNION {{<<i, k>> : k \in Indices(d.Tables[i].Constraints)} : i \in Indices(d.Tables)} :
        d.Tables[p[1]].Constraints[p[2]].Kind = ForeignKey}

TableNames(d) == {d.Tables[i].Name : i \in Indices(d.Tables)}

ResolvedForeignKeys(d) ==
    {p \in ForeignKeys(d) : d.Tables[p[1]].Constraints[p[2]].ReferenceTable \in TableNames(d)}

\* C10: both endpoints of every edge are keys of Nodes; a foreign key whose
\* referenced table is not in the schema gives no edge and no error, and
\* every other foreign key still has its edge.
C10_EdgeEndpointsExist ==
    (pc # "start" /\ db # <<>>)
        => /\ buildErr = <<>>
           /\ \A e \in EdgeSet(g[1]) :
                  e.FromTable \in DOMAIN g[1].Nodes /\ e.ToTable \in DOMAIN g[1].Nodes
           /\ Len(g[1].Edges) = Cardinality(ResolvedForeignKeys(db[1]))
           /\ \A p \in ResolvedForeignKeys(db[1]) :
                  \E e \in EdgeSet(g[1]) :
                      /\ e.FromTable = db[1].Tables[p[1]].Name
                      /\ e.ToTable = db[1].Tables[p[1]].Constraints[p[2]].ReferenceTable
                      /\ e.Columns = db[1].Tables[p[1]].Constraints[p[2]].Columns

\* Build returned on a schema with a dangling foreign key and a resolved one.
C10_Witness ==
    /\ pc = "built"
    /\ db # <<>>
    /\ ForeignKeys(db[1]) \ ResolvedForeignKeys(db[1]) # {}
    /\ ResolvedForeignKeys(db[1]) # {}
    /\ Len(g[1].Edges) = Cardinality(ResolvedForeignKeys(db[1]))

\* ---------------------------------------------------------------- C11
\* p comes before q in declaration order (table position, then constraint
\* position).
DeclaredBefore(p, q) == p[1] < q[1] \/ (p[1] = q[1] /\ p[2] < q[2])

\* The place of a resolved foreign key among the resolved foreign keys.
EdgeIndex(d, p) == Cardinality({q \in ResolvedForeignKeys(d) : DeclaredBefore(q, p)}) + 1

\* C11: Build registers one node per table under the table's name and
\* emits exactly one edge per ForeignKey constraint whose referenced table
\* exists (none for PrimaryKey, Unique and Check constraints), from the owning
\* table to the referenced table with the constraint's Columns and
\* ReferenceColumns unchanged, in table declaration order and within a table
\* in constraint declaration order; an empty schema gives no node and no edge.
C11_OneEdgePerForeignKey ==
    (pc # "start" /\ db # <<>>)
        => LET d == db[1]
               gr == g[1]
           IN /\ gr.DatabaseName = d.Name
              /\ DOMAIN gr.Nodes = TableNames(d)
              /\ \A i \in Indices(d.Tables) : gr.Nodes[d.Tables[i].Name] = d.Tables[i]
              /\ Len(gr.Edges) = Cardinality(ResolvedForeignKeys(d))
              /\ \A p \in ResolvedForeignKeys(d) :
                     LET constraint == d.Tables[p[1]].Constraints[p[2]]
                     IN gr.Edges[EdgeIndex(d, p)] =
                            [FromTable |-> d.Tables[p[1]].Name,
                             ToTable |-> constraint.ReferenceTable,
                             Columns |-> constraint.Columns,
                             ReferenceColumns |-> constraint.ReferenceColumns]
              /\ d.Tables = <<>> => (DOMAIN gr.Nodes = {} /\ gr.Edges = <<>>)

\* Build returned on a schema that declares b before a, b with a composite
\* foreign key and a with a foreign key to itself: two edges, b's first.
C11_Witness ==
    /\ pc = "built"
    /\ db # <<>>
    /\ Len(db[1].Tables) = 2
    /\ db[1].Tables[1].Name = "b"
    /\ Len(g[1].Edges) = 2
    /\ g[1].Edges[1].FromTable = "b"
    /\ Len(g[1].Edges[1].Columns) = 2
    /\ g[1].Edges[2].FromTable = "a"
    /\ g[1].Edges[2].ToTable = "a"

\* ---------------------------------------------------------------- C12
\* The names of the table lines of a text output, in output order.
TableLineNames(o) ==
    LET lines == SelectSeq(o, LAMBDA l : l.kind = "table")
    IN [i \in Indices(lines) |-> lines[i].name]

\* Strictly ascending table names.
Ascending(names) == \A i, j \in Indices(names) : i < j => NameLess(names[i], names[j])

\* C12: the flat renderers list the tables in ascending order of name,
\* exactly len(G.Nodes) entries, each table once, whatever the edges; the
\* text header states that count.
C12_FlatListSorted ==
    (pc = "done" /\ g # <<>> /\ shape = ShapeFlat /\ err = <<>>)
        => LET names == IF format = FormatText THEN TableLineNames(out)
                        ELSE [i \in Indices(out[1].tables) |-> out[1].tables[i].name]
           IN /\ Len(names) = Cardinality(DOMAIN g[1].Nodes)
              /\ Ascending(names)
              /\ {names[i] : i \in Indices(names)} = DOMAIN g[1].Nodes
              /\ format = FormatText =>
                    (out[2].kind = "count" /\ out[2].tables = Cardinality(DOMAIN g[1].Nodes))

\* A flat text listing of three tables declared in descending order, two of
\* them on a cycle, the third without any edge.
C12_Witness ==
    /\ pc = "done"
    /\ g # <<>>
    /\ shape = ShapeFlat
    /\ format = FormatText
    /\ Len(db[1].Tables) = 3
    /\ \A i \in 1..2 : NameLess(db[1].Tables[i + 1].Name, db[1].Tables[i].Name)
    /\ \E t \in DOMAIN g[1].Nodes : OnCycle(g[1], t)
    /\ IsolatedTables(g[1]) # {}
    /\ Len(TableLineNames(out)) = 3

\* ---------------------------------------------------------------- C13
\* C13: the edges array of the flat JSON has the length and the order of
\* G.Edges, every entry carries that edge's from, to, columns and
\* referenceColumns unchanged, and the set of {from, to} pairs equals the set
\* of {FromTable, ToTable} pairs of G.Edges.
C13_FlatJSONEdgesRoundTrip ==
    (pc = "done" /\ renderer = "renderFlatAsJSON")
        => LET edges == out[1].edges
           IN /\ Len(edges) = Len(g[1].Edges)
              /\ \A i \in Indices(edges) :
                     /\ edges[i].from = g[1].Edges[i].FromTable
                     /\ edges[i].to = g[1].Edges[i].ToTable
                     /\ edges[i].columns = g[1].Edges[i].Columns
                     /\ edges[i].referenceColumns = g[1].Edges[i].ReferenceColumns
              /\ {<<edges[i].from, edges[i].to>> : i \in Indices(edges)}
                    = {<<e.FromTable, e.ToTable>> : e \in EdgeSet(g[1])}

\* A flat JSON rendering of two tables that reference each other, one of the
\* foreign keys composite.
C13_Witness ==
    /\ pc = "done"
    /\ renderer = "renderFlatAsJSON"
    /\ Len(out[1].edges) = 2
    /\ out[1].edges[1].from = out[1].edges[2].to
    /\ out[1].edges[1].to = out[1].edges[2].from
    /\ out[1].edges[1].from # out[1].edges[1].to
    /\ \E i \in 1..2 : Len(out[1].edges[i].columns) = 2

\* ---------------------------------------------------------------- C14
\* C14: two calls of Render on the same graph with the same format and
\* shape return the same output and the same error, whatever order the
\* loops over the G.Nodes map take in either call (for the diagram: whenever
\* the diagram library fails in neither call).
C14_RenderDeterministic ==
    (pc = "done" /\ again # <<>>)
        => /\ format = again[1].format
           /\ shape = again[1].shape
           /\ renderer # "renderGraphAsText" => (out = again[1].out /\ err = again[1].err)
           /\ (renderer = "renderGraphAsText" /\ err = <<>> /\ again[1].err = <<>>)
                 => out = again[1].out

\* The second text tree of a graph with three tables, at least two of them
\* roots, declared in another order than the sorted one.
C14_Witness ==
    /\ pc = "done"
    /\ again # <<>>
    /\ renderer = "renderTreeAsText"
    /\ Cardinality(DOMAIN g[1].Nodes) = 3
    /\ Cardinality(DOMAIN g[1].Nodes \ hasIncomingEdge(g[1])) >= 2
    /\ NameLess(db[1].Tables[2].Name, db[1].Tables[1].Name)
    /\ Len(out) > 3
    /\ out = again[1].out

TopTables(root) == SelectSeq(root.Children, LAMBDA n : n.TableName # OrphanTables)

\* The object obj serializes the node: a marker node with exactly the keys
\* markerKeys (its columns, when a key, empty), a regular node with name, the
\* columns of its table and, when it has children, the children array.
RECURSIVE Serializes(_, _, _)
Serializes(obj, node, markerKeys) ==
    IF node.IsCircular \/ node.AlreadyShown
    THEN /\ DOMAIN obj = markerKeys
         /\ obj.name = node.TableName
         /\ "columns" \in markerKeys => obj.columns = <<>>
    ELSE /\ obj.name = node.TableName
         /\ DOMAIN obj = {"name", "columns"}
                            \cup (IF node.Children # <<>> THEN {"children"} ELSE {})
         /\ Len(obj.columns) = Len(node.Table[1].Columns)
         /\ \A c \in Indices(obj.columns) : obj.columns[c].name = node.Table[1].Columns[c].Name
         /\ node.Children # <<>> =>
               /\ Len(obj.children) = Len(node.Children)
               /\ \A i \in Indices(node.Children) :
                      Serializes(obj.children[i], node.Children[i], markerKeys)

SerializesTree(markerKeys) ==
    /\ Len(out[1].tables) = Len(TopTables(tree[1]))
    /\ \A i \in Indices(out[1].tables) :
           Serializes(out[1].tables[i], TopTables(tree[1])[i], markerKeys)

\* C16 as claimed: in the JSON tree a circular or already-shown node is an
\* object holding only the name key (no columns key, no children key); a
\* regular node has name, a columns array and a children array that is omitted
\* when empty.
C16_MarkerNodeNameOnly ==
    (TreeDone /\ format = FormatJSON) => SerializesTree({"name"})

\* C16 as amended: in the JSON tree a circular or already-shown node is an
\* object with the name key and an empty columns array, and no children key;
\* a regular node has name, a columns array and a children array that is
\* omitted when empty.
C16_MarkerNodeEmptyColumns ==
    (TreeDone /\ format = FormatJSON) => SerializesTree({"name", "columns"})

\* The nodes of a tree that the renderers write: all but the top node.
RenderedNodes(root) == UNION {TreeNodes(root.Children[i]) : i \in Indices(root.Children)}

\* A JSON tree with a circular node, an already-shown node and a regular node
\* that has children.
C16_Witness ==
    /\ TreeDone
    /\ format = FormatJSON
    /\ \E n \in RenderedNodes(tree[1]) : n.IsCircular
    /\ \E n \in RenderedNodes(tree[1]) : n.AlreadyShown
    /\ \E i \in Indices(out[1].tables) : "children" \in DOMAIN out[1].tables[i]

\* ---------------------------------------------------------------- C17
\* The smallest name of a set of table names.
MinName(S) == CHOOSE x \in S : \A y \in S : ~NameLess(y, x)

\* The tables without outgoing foreign key.
RootSet(gr) == {t \in DOMAIN gr.Nodes : \A e \in EdgeSet(gr) : e.FromTable # t}

\* The tables from which a foreign-key path leads to a table of S, S included.
ReferrersOf(gr, S) == {t \in DOMAIN gr.Nodes : ReachableFrom(gr, {t}) \cap S # {}}

Plain(node) == ~node.IsCircular /\ ~node.AlreadyShown

\* C17: when some table is FromTable of no edge, buildTree returns a
\* synthetic top node named after the database whose children are exactly
\* those tables, one fully expanded child each, in ascending order (followed
\* only by the orphan node when there is one); when the graph is not empty
\* and has no such table, the traversal starts from the smallest table name
\* and from no other table.
C17_RootSelection ==
    /\ (pc = "tree" /\ RootSet(g[1]) # {})
          => /\ stack[1].kids = SortNames(RootSet(g[1]))
             /\ ~stack[1].fallback
    /\ (pc = "tree" /\ RootSet(g[1]) = {} /\ DOMAIN g[1].Nodes # {})
          => /\ stack[1].kids = <<MinName(DOMAIN g[1].Nodes)>>
             /\ stack[1].fallback
    /\ (TreeDone /\ RootSet(g[1]) # {})
          => LET kids == tree[1].Children
                 tops == TopTables(tree[1])
             IN /\ tree[1].TableName = g[1].DatabaseName
                /\ tree[1].Table = <<>>
                /\ [i \in Indices(tops) |-> tops[i].TableName] = SortNames(RootSet(g[1]))
                /\ \A i \in Indices(tops) : Plain(tops[i])
                /\ \A i \in Indices(kids) : kids[i].TableName = OrphanTables => i = Len(kids)
                /\ visited = ReferrersOf(g[1], RootSet(g[1]))
    /\ (TreeDone /\ RootSet(g[1]) = {} /\ DOMAIN g[1].Nodes # {})
          => /\ tree[1].TableName = MinName(DOMAIN g[1].Nodes)
             /\ Plain(tree[1])
             /\ visited = ReferrersOf(g[1], {MinName(DOMAIN g[1].Nodes)})

\* A tree with two roots declared in descending order and a third table
\* below one of them.
C17_Witness ==
    /\ TreeDone
    /\ Cardinality(RootSet(g[1])) = 2
    /\ Cardinality(DOMAIN g[1].Nodes) = 3
    /\ NameLess(db[1].Tables[2].Name, db[1].Tables[1].Name)
    /\ Len(TopTables(tree[1])) = 2
    /\ NameLess(tree[1].Children[1].TableName, tree[1].Children[2].TableName)
    /\ \E i \in 1..2 : tree[1].Children[i].Children # <<>>

\* A tree built from the fallback start table: no root, two tables, the
\* smallest one at the top.
C17_FallbackReached ==
    /\ TreeDone
    /\ RootSet(g[1]) = {}
    /\ Cardinality(DOMAIN g[1].Nodes) >= 2
    /\ tree[1].TableName = MinName(DOMAIN g[1].Nodes)

\* ---------------------------------------------------------------- C18
\* The tables that reference t, one per edge to t, in G.Edges order.
ReferrersInEdgeOrder(gr, t) ==
    LET edges == SelectSeq(gr.Edges, LAMBDA e : e.ToTable = t)
    IN [i \in Indices(edges) |-> edges[i].FromTable]

\* C18: the children of every fully expanded node of a table T are, in
\* G.Edges order, one node per edge whose ToTable is T, each for that
\* edge's FromTable (twice for two foreign keys to T, T itself for a
\* self-reference).
C18_ChildrenFollowEdges ==
    TreeDone
        => \A n \in TreeNodes(tree[1]) :
               (Plain(n) /\ n.Table # <<>>)
                   => [i \in Indices(n.Children) |-> n.Children[i].TableName]
                          = ReferrersInEdgeOrder(g[1], n.TableName)

\* A tree in which a table appears under itself and another table twice
\* under the table it references with two foreign keys.
C18_Witness ==
    /\ TreeDone
    /\ \E n \in TreeNodes(tree[1]) :
           /\ Plain(n)
           /\ n.Table # <<>>
           /\ \E i \in Indices(n.Children) : n.Children[i].TableName = n.TableName
           /\ \E i, j \in Indices(n.Children) :
                  /\ i < j
                  /\ n.Children[i].TableName = n.Children[j].TableName
                  /\ n.Children[i].TableName # n.TableName

\* ---------------------------------------------------------------- C19
\* The objects of a JSON tree give neither columns nor children for the
\* marker nodes of the tree they serialize.
RECURSIVE MarkersBare(_, _)
MarkersBare(obj, node) ==
    IF node.IsCircular \/ node.AlreadyShown
    THEN obj.columns = <<>> /\ "children" \notin DOMAIN obj
    ELSE node.Children # <<>> =>
             \A i \in Indices(node.Children) : MarkersBare(obj.children[i], node.Children[i])

\* The lines of a text tree that carry a marker.
MarkerLines(o) == {i \in Indices(o) : o[i].kind = "table" /\ o[i].marker # ""}

\* C19: no node of a tree has both IsCircular and AlreadyShown, a node with
\* either flag has no children, and the text and JSON renderers write neither
\* columns nor descendants for it: in the text tree the line after a marker
\* line is never nested below it, in the JSON tree the node's columns are
\* empty and it has no children.
C19_MarkerNodesAreLeaves ==
    /\ pc = "tree" =>
          \A f \in Indices(stack) : \A n \in TreeNodes(stack[f].node) :
              /\ ~(n.IsCircular /\ n.AlreadyShown)
              /\ ~Plain(n) => n.Children = <<>>
    /\ TreeDone =>
          /\ \A n \in TreeNodes(tree[1]) :
                 /\ ~(n.IsCircular /\ n.AlreadyShown)
                 /\ ~Plain(n) => n.Children = <<>>
          /\ format = FormatText =>
                \A i \in MarkerLines(out) :
                    (i < Len(out) /\ out[i + 1].kind \in {"table", "column"})
                        => Len(out[i + 1].prefix) <= Len(out[i].prefix)
          /\ format = FormatJSON =>
                \A i \in Indices(out[1].tables) :
                    MarkersBare(out[1].tables[i], TopTables(tree[1])[i])

\* A text tree with a circular line and an already-shown line, a marker line
\* followed by a further line.
C19_Witness ==
    /\ TreeDone
    /\ format = FormatText
    /\ \E i \in MarkerLines(out) : out[i].marker = " (circular reference)"
    /\ \E i \in MarkerLines(out) : out[i].marker = " (see above)" /\ i < Len(out)

\* ---------------------------------------------------------------- C20
\* The tables whose expansion is under way: the frames above buildTree's own.
StackTables == {stack[i].node.TableName : i \in 2..Len(stack)}

\* C20 as claimed: during the depth-first expansion the sets visited and
\* processing are disjoint in every reachable state of the traversal.
C20_MarkerSetsDisjoint == pc = "tree" => visited \cap processing = {}

\* C20 as amended: during the depth-first expansion processing (the tables
\* on the active DFS stack) is a subset of visited (the tables shown at least
\* once) in every reachable state of the traversal: a table is in both sets
\* while it is being expanded and in visited alone afterwards.
C20_ProcessingWithinVisited ==
    pc = "tree"
        => /\ processing \subseteq visited
           /\ visited \cap processing = StackTables

\* The traversal is two tables deep and has finished a third one.
C20_Witness ==
    /\ pc = "tree"
    /\ Cardinality(processing) = 2
    /\ visited \ processing # {}
    /\ Len(stack) = 3

\* ---------------------------------------------------------------- C21
\* The tables that have a fully expanded node in the subtree of a node.
ExpandedIn(node) ==
    {n.TableName : n \in {m \in TreeNodes(node) : Plain(m) /\ m.Table # <<>>}}

\* The tables fully expanded in the children of a node before child i.
ExpandedBefore(node, i) == UNION {ExpandedIn(node.Children[j]) : j \in 1..(i - 1)}

\* Every node below node carries the circular mark exactly when its table is
\* one of its proper ancestors, and the already-shown mark exactly when its
\* table was fully expanded earlier (in earlier, a set of tables, or in an
\* earlier sibling's subtree on the way down) and is not an ancestor.
RECURSIVE MarksFollowPath(_, _, _)
MarksFollowPath(node, ancestors, earlier) ==
    \A i \in Indices(node.Children) :
        LET child == node.Children[i]
            above == ancestors \cup {node.TableName}
            done == (earlier \cup ExpandedBefore(node, i)) \ above
        IN child.TableName # OrphanTables
               => /\ child.IsCircular <=> child.TableName \in above
                  /\ child.AlreadyShown <=> child.TableName \in done
                  /\ MarksFollowPath(child, above, done)

\* C21: at every step of the traversal processing is the set of tables on
\* the current DFS path; a return clears the table's processing mark and
\* keeps its visited mark, so processing is empty when buildTree returns; a
\* node is circular exactly when its table is a proper ancestor of the node
\* in the tree, and already-shown exactly when its table was fully expanded
\* earlier and is not an ancestor.
C21_ProcessingIsPath ==
    /\ pc = "tree" => (processing = StackTables /\ StackTables \subseteq visited)
    /\ TreeDone
          => /\ processing = {}
             /\ visited = ExpandedIn(tree[1])
             /\ MarksFollowPath(tree[1], {}, {})

\* A tree with a circular node whose table is its grandparent and an
\* already-shown node.
C21_Witness ==
    /\ TreeDone
    /\ processing = {}
    /\ \E n \in TreeNodes(tree[1]) :
           /\ Plain(n)
           /\ n.Table # <<>>
           /\ \E i \in Indices(n.Children) :
                  /\ Plain(n.Children[i])
                  /\ \E j \in Indices(n.Children[i].Children) :
                         /\ n.Children[i].Children[j].IsCircular
                         /\ n.Children[i].Children[j].TableName = n.TableName
    /\ \E n \in TreeNodes(tree[1]) : n.AlreadyShown

\* ---------------------------------------------------------------- C22
\* The tables the traversal starts from: the tables without outgoing foreign
\* key, or the smallest table when there is none.
StartSet(gr) ==
    IF RootSet(gr) # {} THEN RootSet(gr)
    ELSE IF DOMAIN gr.Nodes # {} THEN {MinName(DOMAIN gr.Nodes)}
    ELSE {}

\* The tables with a foreign-key edge that the traversal never reaches.
Unreached(gr) == (DOMAIN gr.Nodes \ IsolatedTables(gr)) \ ReferrersOf(gr, StartSet(gr))

\* The names of the objects of a sequence of JSON table objects.
RECURSIVE JSONNames(_)
JSONNames(tables) ==
    UNION {{tables[i].name}
             \cup (IF "children" \in DOMAIN tables[i] THEN JSONNames(tables[i].children) ELSE {})
           : i \in Indices(tables)}

\* C22: a table that has a foreign-key edge and is not reached by the
\* traversal (no descendant of a root or of the fallback start table) is left
\* unvisited and is no orphan: no node of the tree carries it, neither in the
\* main tree nor under orphan_tables, and the text and JSON trees have no
\* entry for it.
C22_UnreachedTableLeftOut ==
    TreeDone
        => \A t \in Unreached(g[1]) :
               /\ t \notin visited
               /\ \A n \in TreeNodes(tree[1]) : n.TableName # t
               /\ \A i \in Indices(tree[1].Children) :
                      tree[1].Children[i].TableName = OrphanTables
                          => \A n \in TreeNodes(tree[1].Children[i]) : n.TableName # t
               /\ format = FormatText =>
                      \A i \in Indices(out) :
                          out[i].kind \in {"table", "orphan"} => out[i].name # t
               /\ format = FormatJSON =>
                      /\ t \notin JSONNames(out[1].tables)
                      /\ "orphans" \in DOMAIN out[1] => t \notin JSONNames(out[1].orphans)

\* A text tree of a root table next to two tables that reference each other
\* and nothing else: the two are left out.
C22_Witness ==
    /\ TreeDone
    /\ format = FormatText
    /\ RootSet(g[1]) # {}
    /\ Cardinality(Unreached(g[1])) = 2
    /\ \A e \in EdgeSet(g[1]) : e.FromTable # e.ToTable
    /\ Len(out) > 1

\* A tree of a root table next to a table whose only edge references itself.
C22_SelfReferenceLeftOut ==
    /\ TreeDone
    /\ RootSet(g[1]) # {}
    /\ \E t \in Unreached(g[1]) : \A e \in EdgeSet(g[1]) : e.FromTable = t /\ e.ToTable = t

\* ---------------------------------------------------------------- C23
\* The single-column PrimaryKey and Unique constraints on a column, and the
\* positions <<constraint, j>> of the ForeignKey constraints that hold the
\* column at position j and have a j-th reference column.
TagConstraints(table, columnName) ==
    {k \in Indices(table.Constraints) :
        /\ table.Constraints[k].Kind \in {PrimaryKey, Unique}
        /\ table.Constraints[k].Columns = <<columnName>>}

ReferencePositions(table, columnName) ==
    {p \in UNION {{<<k, j>> : j \in Indices(table.Constraints[k].Columns)} :
                      k \in Indices(table.Constraints)} :
        /\ table.Constraints[p[1]].Kind = ForeignKey
        /\ table.Constraints[p[1]].Columns[p[2]] = columnName
        /\ p[2] <= Len(table.Constraints[p[1]].ReferenceColumns)}

\* The tag of a constraint kind as the JSON formatters write it, and the tag
\* a text annotation piece stands for.
TagOfKind(kind) == IF kind = PrimaryKey THEN "PRIMARY KEY" ELSE "UNIQUE"

TagOfPiece(piece) == IF piece = " PRIMARY KEY" THEN "PRIMARY KEY" ELSE "UNIQUE"

\* The tags and the references <<table, column>> of a text annotation, in
\* output order.
TextTags(pieces) ==
    LET tags == SelectSeq(pieces, LAMBDA p : p \in {" PRIMARY KEY", " UNIQUE"})
    IN [i \in Indices(tags) |-> TagOfPiece(tags[i])]

RECURSIVE TextRefs(_, _)
TextRefs(pieces, i) ==
    IF i > Len(pieces) THEN <<>>
    ELSE (IF pieces[i] = " -> " THEN <<<<pieces[i + 1], pieces[i + 3]>>>> ELSE <<>>)
             \o TextRefs(pieces, i + 1)

\* The tags and the references of a JSON column object.
JSONTags(obj) == IF "constraint" \in DOMAIN obj THEN <<obj.constraint>> ELSE <<>>

JSONRefs(obj) ==
    IF "reference" \in DOMAIN obj THEN <<<<obj.reference[1], obj.reference[3]>>>> ELSE <<>>

\* The annotation of a column carries a tag exactly for the single-column
\* PrimaryKey and Unique constraints on it and a reference exactly for the
\* foreign-key positions that hold it.
FollowsRule(table, columnName, tags, refs) ==
    /\ \A kind \in {PrimaryKey, Unique} :
           (\E i \in Indices(tags) : tags[i] = TagOfKind(kind))
               <=> (\E k \in TagConstraints(table, columnName) :
                        table.Constraints[k].Kind = kind)
    /\ \A rt \in Names \cup {Dangling}, rc \in {"id", "x", "y"} :
           (\E i \in Indices(refs) : refs[i] = <<rt, rc>>)
               <=> (\E p \in ReferencePositions(table, columnName) :
                        /\ table.Constraints[p[1]].ReferenceTable = rt
                        /\ table.Constraints[p[1]].ReferenceColumns[p[2]] = rc)

\* The table line (or orphan bullet) a column line of a text output belongs to.
OwnerOf(o, i) ==
    LET heads == {j \in 1..(i - 1) : o[j].kind \in {"table", "orphan"}}
    IN o[CHOOSE j \in heads : \A h \in heads : h <= j].name

\* The <<table name, column object>> pairs of a sequence of JSON table objects.
RECURSIVE JSONColumnEntries(_)
JSONColumnEntries(tables) ==
    UNION {{<<tables[i].name, tables[i].columns[c]>> : c \in Indices(tables[i].columns)}
             \cup (IF "children" \in DOMAIN tables[i]
                   THEN JSONColumnEntries(tables[i].children) ELSE {})
           : i \in Indices(tables)}

Elements(seq) == {seq[i] : i \in Indices(seq)}

\* A tree or flat render that returned its output.
ColumnsRendered ==
    /\ pc = "done"
    /\ g # <<>>
    /\ err = <<>>
    /\ shape \in {ShapeTree, ShapeFlat}
    /\ format \in {FormatText, FormatJSON}

\* The annotation of every rendered column follows the rule and carries the
\* tags and the references that the formatter of the other format gives the
\* column (a tag or reference written twice counting once), for the columns
\* that satisfy the condition matches.
AnnotationsAgree(matches(_, _)) ==
    IF format = FormatText
    THEN \A i \in {j \in Indices(out) : out[j].kind = "column"} :
             LET table == g[1].Nodes[OwnerOf(out, i)]
                 other == JSONColumn(table, Column(out[i].name, out[i].type))
                 tags == TextTags(out[i].constraints)
                 refs == TextRefs(out[i].constraints, 1)
             IN matches(table, out[i].name)
                    => /\ FollowsRule(table, out[i].name, tags, refs)
                       /\ Elements(tags) = Elements(JSONTags(other))
                       /\ Elements(refs) = Elements(JSONRefs(other))
    ELSE \A e \in JSONColumnEntries(out[1].tables) :
             LET table == g[1].Nodes[e[1]]
                 other == appendConstraints(table, e[2].name)
             IN matches(table, e[2].name)
                    => /\ FollowsRule(table, e[2].name, JSONTags(e[2]), JSONRefs(e[2]))
                       /\ Elements(JSONTags(e[2])) = Elements(TextTags(other))
                       /\ Elements(JSONRefs(e[2])) = Elements(TextRefs(other, 1))

AnyColumn(table, columnName) == TRUE

AtMostOneMatch(table, columnName) ==
    /\ Cardinality({table.Constraints[k].Kind : k \in TagConstraints(table, columnName)}) <= 1
    /\ Cardinality({<<table.Constraints[p[1]].ReferenceTable,
                      table.Constraints[p[1]].ReferenceColumns[p[2]]>> :
                        p \in ReferencePositions(table, columnName)}) <= 1

\* C23: the four formatters (text tree, text flat, JSON tree, JSON flat)
\* annotate a column by one rule: the PRIMARY KEY or UNIQUE tag exactly when
\* the column is the sole member of a single-column PrimaryKey or Unique
\* constraint, a reference to referenceTable.referenceColumns[i] exactly when
\* the column is at position i of a ForeignKey constraint with an i-th
\* reference column; text and JSON carry the same tag and the same reference
\* for a column, also when several constraints match it.
C23_SameAnnotationRule == ColumnsRendered => AnnotationsAgree(AnyColumn)

\* The same for the columns whose matching constraints give at most one tag
\* and at most one reference.
C23_SingleMatchAgrees == ColumnsRendered => AnnotationsAgree(AtMostOneMatch)

\* A JSON render of a table whose column x is both a single-column primary
\* key and unique.
C23_SeveralMatches ==
    /\ ColumnsRendered
    /\ format = FormatJSON
    /\ \E e \in JSONColumnEntries(out[1].tables) :
           ~AtMostOneMatch(g[1].Nodes[e[1]], e[2].name)

\* ---------------------------------------------------------------- C24
\* The positions <<table, constraint, i>> of the schema's foreign keys to
\* declared tables that have both a local column and a reference column.
MatchedPositions(d) ==
    UNION {{<<p[1], p[2], i>> :
               i \in {j \in Indices(d.Tables[p[1]].Constraints[p[2]].Columns) :
                         j <= Len(d.Tables[p[1]].Constraints[p[2]].ReferenceColumns)}} :
           p \in ResolvedForeignKeys(d)}

\* The relation the diagram draws for such a position.
RelationOf(d, q) ==
    LET constraint == d.Tables[q[1]].Constraints[q[2]]
    IN [kind |-> "relation", from |-> d.Tables[q[1]].Name, column |-> constraint.Columns[q[3]],
        to |-> constraint.ReferenceTable, referenceColumn |-> constraint.ReferenceColumns[q[3]]]

\* The table boxes and the relations of a diagram, in output order.
DiagramBoxes(o) == SelectSeq(o, LAMBDA l : l.kind = "sql_table")

DiagramRelations(o) == SelectSeq(o, LAMBDA l : l.kind = "relation")

DiagramRendered == pc = "done" /\ renderer = "renderGraphAsText" /\ err = <<>>

\* C24: the diagram has one table box per node of the graph, the tables in
\* lexicographic order, and exactly one relation per foreign-key column whose
\* target table is in the graph: for every edge and every position i with a
\* local column and a reference column, one relation from FromTable.Columns[i]
\* to ToTable.ReferenceColumns[i]; a foreign key to a table outside the graph
\* and a column without position-matched reference column are skipped
\* without error.
C24_OneRelationPerColumn ==
    DiagramRendered
        => LET boxes == DiagramBoxes(out)
               relations == DiagramRelations(out)
           IN /\ [i \in Indices(boxes) |-> boxes[i].name] = SortNames(DOMAIN g[1].Nodes)
              /\ Len(relations) = Cardinality(MatchedPositions(db[1]))
              /\ Elements(relations) = {RelationOf(db[1], q) : q \in MatchedPositions(db[1])}
              /\ \A i \in Indices(relations) :
                     /\ relations[i].to \in DOMAIN g[1].Nodes
                     /\ \E e \in EdgeSet(g[1]) : \E j \in Indices(e.Columns) :
                            /\ j <= Len(e.ReferenceColumns)
                            /\ relations[i].from = e.FromTable
                            /\ relations[i].to = e.ToTable
                            /\ relations[i].column = e.Columns[j]
                            /\ relations[i].referenceColumn = e.ReferenceColumns[j]

\* A diagram of two tables, b declared first, with a composite foreign key
\* that gives two relations and a foreign key with two columns and one
\* reference column that gives one.
C24_Witness ==
    /\ DiagramRendered
    /\ Len(DiagramBoxes(out)) = 2
    /\ db[1].Tables[1].Name = "b"
    /\ Len(g[1].Edges) = 2
    /\ Len(DiagramRelations(out)) = 3
    /\ \E e \in EdgeSet(g[1]) : Len(e.Columns) > Len(e.ReferenceColumns)

\* A diagram of a schema with a dangling foreign key and a resolved one.
C24_DanglingSkipped ==
    /\ DiagramRendered
    /\ ForeignKeys(db[1]) \ ResolvedForeignKeys(db[1]) # {}
    /\ Len(DiagramRelations(out)) = 1

\* ---------------------------------------------------------------- C25
\* The tables that can never become ready: a chain of references leads from
\* them to a table on a directed cycle.
BehindCycle(gr) ==
    {t \in DOMAIN gr.Nodes : \E u \in ReachableFrom(gr, {t}) : OnCycle(gr, u)}

\* The first n tables of an order.
Placed(order, n) == {order[i] : i \in 1..n}

\* The place of a table in an order.
PlaceOf(order, t) == CHOOSE i \in Indices(order) : order[i] = t

NoRepeats(seq) == \A i, j \in Indices(seq) : i # j => seq[i] # seq[j]

C25_ResidualCycle ==
    /\ pc = "done"
    /\ chart # <<>>
    /\ Len(chart[1].result) = 3
    /\ Cardinality(Elements(chart[1].component) \cap BehindCycle(g[1])) = 2
    /\ NameLess(chart[1].result[3], chart[1].result[2])

\* ---------------------------------------------------------------- C26
\* The number of fully expanded nodes of table t, and the number of marker
\* nodes, in a tree, every occurrence counted.
RECURSIVE ExpandedCount(_, _)
RECURSIVE ExpandedCountFrom(_, _, _)
ExpandedCount(node, t) ==
    (IF Plain(node) /\ node.Table # <<>> /\ node.TableName = t THEN 1 ELSE 0)
        + ExpandedCountFrom(node.Children, t, 1)

ExpandedCountFrom(children, t, i) ==
    IF i > Len(children) THEN 0
    ELSE ExpandedCount(children[i], t) + ExpandedCountFrom(children, t, i + 1)

RECURSIVE MarkerCount(_)
RECURSIVE MarkerCountFrom(_, _)
MarkerCount(node) ==
    (IF Plain(node) THEN 0 ELSE 1) + MarkerCountFrom(node.Children, 1)

MarkerCountFrom(children, i) ==
    IF i > Len(children) THEN 0
    ELSE MarkerCount(children[i]) + MarkerCountFrom(children, i + 1)

\* The number of nodes of a tree that carry a table, every occurrence counted.
RECURSIVE TableNodeCount(_)
RECURSIVE TableNodeCountFrom(_, _)
TableNodeCount(node) ==
    (IF node.Table # <<>> THEN 1 ELSE 0) + TableNodeCountFrom(node.Children, 1)

TableNodeCountFrom(children, i) ==
    IF i > Len(children) THEN 0
    ELSE TableNodeCount(children[i]) + TableNodeCountFrom(children, i + 1)

\* The sum of ExpandedCount over a set of tables.
RECURSIVE ExpandedTotal(_, _)
ExpandedTotal(node, S) ==
    IF S = {} THEN 0
    ELSE LET t == CHOOSE x \in S : TRUE
         IN ExpandedCount(node, t) + ExpandedTotal(node, S \ {t})

\* C26: in every tree buildTree returns each table of G.Nodes has at most
\* one fully expanded node, every further occurrence of the table is a
\* circular or already-shown node, the fully expanded nodes are at most
\* len(G.Nodes) and the marker nodes at most len(G.Edges).
C26_OneExpansionPerTable ==
    TreeDone
        => /\ \A t \in DOMAIN g[1].Nodes : ExpandedCount(tree[1], t) <= 1
           /\ TableNodeCount(tree[1])
                  = ExpandedTotal(tree[1], DOMAIN g[1].Nodes) + MarkerCount(tree[1])
           /\ ExpandedTotal(tree[1], DOMAIN g[1].Nodes) <= Cardinality(DOMAIN g[1].Nodes)
           /\ MarkerCount(tree[1]) <= Len(g[1].Edges)
           /\ \A n \in TreeNodes(tree[1]) : ~Plain(n) => n.TableName \in visited

\* A tree in which a table has its fully expanded node and two marker nodes,
\* and every edge but one ends in a marker node.
C26_Witness ==
    /\ TreeDone
    /\ Len(g[1].Edges) = 3
    /\ MarkerCount(tree[1]) = 2
    /\ \E t \in DOMAIN g[1].Nodes :
           /\ ExpandedCount(tree[1], t) = 1
           /\ \E n \in TreeNodes(tree[1]) : n.TableName = t /\ n.IsCircular
           /\ \E n \in TreeNodes(tree[1]) : n.TableName = t /\ n.AlreadyShown

\* ---------------------------------------------------------------- C27
\* The number of table lines of a text tree.
TableLineCount(o) == Cardinality({i \in Indices(o) : o[i].kind = "table"})

\* The objects of a sequence of JSON table objects, nested ones included.
RECURSIVE JSONObjects(_)
JSONObjects(tables) ==
    UNION {{tables[i]}
             \cup (IF "children" \in DOMAIN tables[i] THEN JSONObjects(tables[i].children) ELSE {})
           : i \in Indices(tables)}

\* C27: when the graph is not empty and has no root, buildTree returns the
\* fallback start table's own node as the top of the tree and the text and
\* JSON renderers write the children of the top node only: the start table
\* has no entry of its own and its columns are not rendered; it appears in
\* the output only where a descendant carries it as a circular marker.
C27_FallbackStartNotRendered ==
    (TreeDone /\ RootSet(g[1]) = {} /\ DOMAIN g[1].Nodes # {})
        => LET start == MinName(DOMAIN g[1].Nodes)
           IN /\ tree[1].TableName = start
              /\ tree[1].Table = <<g[1].Nodes[start]>>
              /\ Plain(tree[1])
              /\ \A n \in RenderedNodes(tree[1]) : n.TableName = start => n.IsCircular
              /\ format = FormatText =>
                    /\ out[1] = [kind |-> "database", name |-> g[1].DatabaseName]
                    /\ EntryLines(out, start) = {}
                    /\ \A i \in Indices(out) :
                           (out[i].kind = "table" /\ out[i].name = start)
                               => out[i].marker = " (circular reference)"
                    /\ TableLineCount(out) = TableNodeCount(tree[1]) - 1
                    /\ tree[1].Children = <<>> => Len(out) = 1
              /\ format = FormatJSON =>
                    /\ Len(out[1].tables) = Len(tree[1].Children)
                    /\ \A e \in JSONColumnEntries(out[1].tables) : e[1] # start
                    /\ \A i \in Indices(out[1].tables) :
                           out[1].tables[i].name = tree[1].Children[i].TableName
                    /\ \A obj \in JSONObjects(out[1].tables) :
                           obj.name = start
                               => (obj.columns = <<>> /\ "children" \notin DOMAIN obj)

\* The text tree of two tables that reference each other: the start table
\* is written once, as the circular marker below the other table.
C27_Witness ==
    /\ TreeDone
    /\ format = FormatText
    /\ RootSet(g[1]) = {}
    /\ Cardinality(DOMAIN g[1].Nodes) = 2
    /\ \A e \in EdgeSet(g[1]) : e.FromTable # e.ToTable
    /\ Cardinality({i \in Indices(out) : out[i].kind = "table" /\ out[i].name = tree[1].TableName}) = 1
    /\ Cardinality(CircularLines(out)) = 1

\* The text tree of a -> b with b -> b: the database line alone.
C27_DatabaseLineAlone ==
    /\ TreeDone
    /\ format = FormatText
    /\ Cardinality(DOMAIN g[1].Nodes) = 2
    /\ Len(g[1].Edges) = 2
    /\ \E e \in EdgeSet(g[1]) : e.FromTable = "a" /\ e.ToTable = "b"
    /\ \E e \in EdgeSet(g[1]) : e.FromTable = "b" /\ e.ToTable = "b"
    /\ out = <<[kind |-> "database", name |-> g[1].DatabaseName]>>

\* ---------------------------------------------------------------- C28
\* Line i of a text tree lies in the subtree of the table line j: it comes
\* after it and every line from the one after j up to i is nested below j.
InSubtree(o, j, i) ==
    /\ j < i
    /\ \A k \in (j + 1)..i :
           o[k].kind \in {"table", "column"} /\ Len(o[k].prefix) > Len(o[j].prefix)

\* C28: in the text tree every line marked (see above) for a table T comes
\* after the line of T's fully expanded entry, and every line marked
\* (circular reference) for T lies in the subtree of T's fully expanded node
\* (below T's entry line, or anywhere when T's node is the top node of the
\* tree, whose subtree is the whole output).
C28_MarkersFollowEntry ==
    (TreeDone /\ format = FormatText)
        => \A i \in MarkerLines(out) :
               LET t == out[i].name
               IN /\ Cardinality(EntryLines(out, t)) <= 1
                  /\ out[i].marker = " (see above)"
                        => \E j \in EntryLines(out, t) : j < i
                  /\ out[i].marker = " (circular reference)"
                        => \/ \E j \in EntryLines(out, t) : InSubtree(out, j, i)
                           \/ /\ EntryLines(out, t) = {}
                              /\ tree[1].TableName = t
                              /\ tree[1].Table # <<>>

\* A text tree with a (see above) line and a (circular reference) line
\* below the entry line of its table.
C28_Witness ==
    /\ TreeDone
    /\ format = FormatText
    /\ \E i \in MarkerLines(out) : out[i].marker = " (see above)"
    /\ \E i \in CircularLines(out) :
           \E j \in EntryLines(out, out[i].name) : InSubtree(out, j, i)

\* A text tree with a (circular reference) line two levels below the entry
\* line of its table.
C28_CircularTwoBelow ==
    /\ TreeDone
    /\ format = FormatText
    /\ \E i \in CircularLines(out) :
           \E j \in EntryLines(out, out[i].name) :
               InSubtree(out, j, i) /\ Len(out[i].prefix) >= Len(out[j].prefix) + 2

\* ---------------------------------------------------------------- C29
\* C29: every table that takes part in no foreign-key edge is a root: the
\* main traversal visits it and it is rendered with its columns as a direct
\* child of the top node; so findOrphanTables returns the empty list for
\* every graph Build returns, and the orphan_tables node, the text section
\* of the orphan tables and the JSON orphans array are never produced.
C29_NoOrphansEver ==
    /\ (pc = "tree" /\ Len(stack) = 1 /\ Top.next > Len(Top.kids))
          => \A order \in IterationOrders(g[1]) :
                 findOrphanTables(g[1], visited, order) = <<>>
    /\ TreeDone
          => /\ \A t \in IsolatedTables(g[1]) :
                    /\ t \in RootSet(g[1])
                    /\ t \in visited
                    /\ \E i \in Indices(tree[1].Children) :
                           tree[1].Children[i]
                               = TreeNode(t, <<g[1].Nodes[t]>>, <<>>, FALSE, FALSE)
                    /\ format = FormatText =>
                           \E i \in EntryLines(out, t) :
                               /\ out[i].prefix = <<>>
                               /\ \A c \in Indices(g[1].Nodes[t].Columns) :
                                      /\ out[i + c].kind = "column"
                                      /\ out[i + c].name = g[1].Nodes[t].Columns[c].Name
                    /\ format = FormatJSON =>
                           \E i \in Indices(out[1].tables) :
                               /\ out[1].tables[i].name = t
                               /\ Len(out[1].tables[i].columns) = Len(g[1].Nodes[t].Columns)
             /\ \A n \in TreeNodes(tree[1]) : n.TableName # OrphanTables
             /\ format = FormatText =>
                    \A i \in Indices(out) : out[i].kind \notin {"orphan_header", "orphan"}
             /\ format = FormatJSON => "orphans" \notin DOMAIN out[1]

\* A text tree of a table without edges next to two tables joined by a
\* foreign key: the table is a top-level entry.
C29_Witness ==
    /\ TreeDone
    /\ format = FormatText
    /\ Cardinality(IsolatedTables(g[1])) = 1
    /\ \E e \in EdgeSet(g[1]) : e.FromTable # e.ToTable
    /\ \E t \in IsolatedTables(g[1]) : \E i \in EntryLines(out, t) : out[i].prefix = <<>>
    /\ Len(tree[1].Children) = 2

\* ---------------------------------------------------------------- C30
\* The references <<table, column>> of the foreign keys on a column whose
\* referenced table is not a node of the graph.
DanglingReferences(gr, table, columnName) ==
    {<<table.Constraints[p[1]].ReferenceTable, table.Constraints[p[1]].ReferenceColumns[p[2]]>> :
        p \in {q \in ReferencePositions(table, columnName) :
                  table.Constraints[q[1]].ReferenceTable \notin DOMAIN gr.Nodes}}

\* Every rendered column that satisfies the condition matches carries the
\* references of its dangling foreign keys, in the text and in the JSON
\* outputs, and no table entry is written for a table outside the graph.
DanglingRendered(matches(_, _)) ==
    IF format = FormatText
    THEN /\ \A i \in {j \in Indices(out) : out[j].kind = "column"} :
                LET table == g[1].Nodes[OwnerOf(out, i)]
                IN matches(table, out[i].name)
                       => DanglingReferences(g[1], table, out[i].name)
                              \subseteq Elements(TextRefs(out[i].constraints, 1))
         /\ \A i \in Indices(out) :
                out[i].kind \in {"table", "orphan"} => out[i].name \in DOMAIN g[1].Nodes
    ELSE /\ \A e \in JSONColumnEntries(out[1].tables) :
                LET table == g[1].Nodes[e[1]]
                IN matches(table, e[2].name)
                       => DanglingReferences(g[1], table, e[2].name)
                              \subseteq Elements(JSONRefs(e[2]))
         /\ JSONNames(out[1].tables) \subseteq DOMAIN g[1].Nodes

\* C30: dropping a dangling foreign key affects the edge list only: a
\* column of a ForeignKey constraint whose referenced table is not in G.Nodes
\* still carries the reference to referenceTable.referenceColumn in the text
\* and JSON outputs, tree and flat, so that a rendered reference can name a
\* table that is listed nowhere in the output.
C30_DanglingReferenceRendered == ColumnsRendered => DanglingRendered(AnyColumn)

\* The same for the columns whose matching constraints give at most one tag
\* and at most one reference.
C30_SingleMatchDangling == ColumnsRendered => DanglingRendered(AtMostOneMatch)

\* A flat JSON output with a reference to a table outside the graph and
\* without any edge.
C30_ReferenceWithoutEdge ==
    /\ ColumnsRendered
    /\ renderer = "renderFlatAsJSON"
    /\ out[1].edges = <<>>
    /\ \E e \in JSONColumnEntries(out[1].tables) :
           /\ "reference" \in DOMAIN e[2]
           /\ e[2].reference[1] = Dangling

====
